---------------------------- MODULE Spec2Model ----------------------------
(***************************************************************************)
(* A model of cc-glm: the singleton lifecycle controller                   *)
(* (src/lifecycle/singleton.ts, src/bin/cli.ts, src/utils/process.ts), the *)
(* signature store (src/proxy/signature-store.ts), the header policy       *)
(* (src/proxy/server.ts) and the thinking-block sanitizer                  *)
(* (src/proxy/transform.ts).                                               *)
(*                                                                         *)
(* Each subsystem has its own variables and its own specification; a       *)
(* specification leaves the variables of the other subsystems unchanged.   *)
(***************************************************************************)
EXTENDS Integers, Sequences, FiniteSets, TLC

(***************************************************************************)
(* ------------------------- LIFECYCLE CONTROLLER ------------------------ *)
(***************************************************************************)

\* The cc-glm wrapper processes that run concurrently on one stateDir.
Wrappers == {"w1", "w2"}

\* Process ids the operating system hands out: 1..MaxPid.  0 stands for
\* "no pid" (readPidFile's null, an unbound port).
MaxPid == 2
Pids == 1..MaxPid
NoPid == 0

\* config.lifecycle.stopGraceSeconds: the number of one-second ticks of
\* stopIfNoClaude's loop.
StopGraceSeconds == 1

\* MIN_VALID_PID of utils/process.ts.
MIN_VALID_PID == 1

VARIABLES
    pc,         \* pc[w]: where wrapper w is in main()/start()/stop()
    lockDir,    \* whether <stateDir>/lock exists
    pidFile,    \* content of <stateDir>/proxy.pid (NoPid: missing or invalid)
    proc,       \* proc[p]: "none" | "proxy" (spawned server) | "other"
    termPending,\* pids that received SIGTERM and have not exited yet
    listener,   \* the pid listening on config.proxy.port, or NoPid
    claude,     \* claude[w]: wrapper w's claude child is running
    portL,      \* recoverStaleLock's local portListening
    lpid,       \* the pid a wrapper holds: spawned child, or stop()'s pid
    res,        \* how start() ended: "none" | "ok" | "portInUse" | "timeout" | "spawnFail"
    graceI,     \* stopIfNoClaude's loop counter i
    holds,      \* ghost: w is between its successful mkdir and its releaseLock
    vown,       \* ghost: at w's last verifyPidOwnsPort, the pid really was the listener
    spawnCount, \* ghost: number of proxy children spawned so far
    signals     \* ghost: the signals stop() has sent

VARIABLES
    cache,       \* signature-store.ts: the keys of the Map `cache`
    accessOrder, \* signature-store.ts: accessOrder, least recently used first
    mapCache,    \* part_006 SignatureStore: the keys of the Map, in insertion order
    lastHas,     \* what the last has() returned, in each of the two versions
    accessLog    \* ghost: the signatures accessed since the last clear(), oldest first

storeVars == <<cache, accessOrder, mapCache, lastHas, accessLog>>

VARIABLES
    hdrPc,            \* "idle", "received" (request read) or "forwarded"
    reqHeaders,       \* req.headers: header name -> value (node lower-cases names)
    target,           \* the Route selected for the request
    bodyWasRewritten, \* whether the model rewrite or the sanitizer changed the body
    forwardHeaders    \* the headers of the upstream request

hdrVars == <<hdrPc, reqHeaders, target, bodyWasRewritten, forwardHeaders>>

VARIABLES
    sanPc,    \* "idle", "request" (body read, routed to anthropic) or "done"
    reqBody,  \* the request body handed to sanitizeContentBlocksWithStore
    sanOut,   \* what sanitizeContentBlocksWithStore returned
    sanAgain  \* what it returned for the body it had returned before

sanVars == <<sanPc, reqBody, sanOut, sanAgain>>

VARIABLES
    clientBlocks, \* the thinking blocks the client received through the proxy,
                  \* each with the upstream it came from and how it was relayed
    echoOut       \* the blocks of the last conversation the client sent back,
                  \* as sent and as forwarded to anthropic

oriVars == <<clientBlocks, echoOut>>

VARIABLES
    globPc,         \* "idle", "compiled", "tested"
    pattern,        \* the glob pattern of a rule, a sequence of characters
    regex,          \* what globToRegExp(pattern) gave: terms, or a SyntaxError
    subject,        \* the string handed to regex.test()
    matched         \* the result of regex.test(subject)

globVars == <<globPc, pattern, regex, subject, matched>>

VARIABLES
    routePc,        \* "idle", "ready", "routed"
    config,         \* the routing part of the configuration
    model,          \* the model of the request, Absent when it has none
    selectedRoute   \* what selectRoute(model, config) returned

routeVars == <<routePc, config, model, selectedRoute>>

VARIABLES
    rqPc,           \* where handleRequest is: "start", "receiving", "dialing",
                    \* "buffering", "streaming", "responded", "returned"
    totalSize,      \* bytes of the request body counted so far
    chunksRead,     \* chunks handed to the handler or to the client so far
    isAborted,      \* the handler's abort flag
    proxyReq,       \* the upstream request: "none", "open", "destroyed",
                    \* "failed", "complete"
    listeners,      \* which of onAborted / onError are registered on req
    inboundFailed,  \* the inbound stream was aborted or errored
    headersSent,    \* res.headersSent
    writeHeads,     \* calls of res.writeHead so far
    resStatus,      \* the status line written, 0 when none
    resBody,        \* what was written into the response body, in order
    resEnded,       \* res.end() was called
    endCalls,       \* the calls of res.end() so far
    lastStep        \* the event handled last

reqVars == <<rqPc, totalSize, chunksRead, isAborted, proxyReq, listeners,
             inboundFailed, headersSent, writeHeads, resStatus, resBody,
             resEnded, endCalls, lastStep>>

VARIABLES
    respPc,         \* "idle", "received", "processed"
    respUpstream,   \* the upstream that sent the buffered response
    respType,       \* the content-type header of the response
    respBody,       \* the response body as received
    respOut         \* the body written to the client, and whether it was
                    \* serialised anew

respVars == <<respPc, respUpstream, respType, respBody, respOut>>

VARIABLES
    lastCall        \* the last call of add() or has() with an argument of any
                    \* type: the method, the argument, and the number of calls

argVars == <<lastCall>>

VARIABLES
    bufUpstream     \* the upstream whose response the handler buffers:
                    \* "none", "anthropic" or "zai"

bufVars == <<bufUpstream>>

lifeVars == <<pc, lockDir, pidFile, proc, termPending, listener, claude, portL,
              lpid, res, graceI, holds, vown, spawnCount, signals>>

(***************************************************************************)
(* utils/process.ts                                                        *)
(***************************************************************************)

\* pidIsAlive(pid): process.kill(pid, 0) succeeds.
pidIsAlive(pid) == pid >= MIN_VALID_PID /\ proc[pid] # "none"

\* isPortListening(port): lsof finds a listener on the port.
isPortListening == listener # NoPid

\* readPidFile(): null (NoPid) when the file is missing or holds no pid >= 1.
readPidFile == IF pidFile < MIN_VALID_PID THEN NoPid ELSE pidFile

\* lsof -nP -iTCP:<port> -sTCP:LISTEN -p <pid> lists the pid as listener.
lsofPidOnPort(pid) == listener = pid


(***************************************************************************)
(* lifecycle/singleton.ts: helpers of SingletonProxy                       *)
(***************************************************************************)

\* A verifyPidOwnsPort that stops after the "port listening" and "pid alive"
\* checks and never asks lsof about the specific pid.
verifyPidOwnsPort_NoLsof(pid) == isPortListening /\ pidIsAlive(pid)

\* verifyPidOwnsPort(pid): the port is listening, the pid is alive, and lsof
\* lists this pid as the listener on the port.
verifyPidOwnsPort(pid) ==
    /\ isPortListening
    /\ pidIsAlive(pid)
    /\ lsofPidOnPort(pid)

\* A start() that takes whatever listens on the port for its own proxy.
ownProxyRunning_AnyListener == isPortListening

\* The condition of start() lines 55-56 and 80-81: the PID file names a live
\* process that owns the port.
ownProxyRunning ==
    LET pid == readPidFile
    IN  pid # NoPid /\ pid > 0 /\ pidIsAlive(pid) /\ verifyPidOwnsPort(pid)

\* recoverStaleLock's decision, given the portListening it sampled.
lockIsStale(portListening) ==
    LET pid == readPidFile
        pidAlive == pid # NoPid /\ pid > 0 /\ pidIsAlive(pid)
    IN  \/ ~portListening /\ ~pidAlive
        \/ pidAlive /\ ~portListening /\ ~verifyPidOwnsPort(pid)

\* tracker.ts hasClaudeProcess(): pgrep finds a process named claude.
hasClaudeProcess == \E w \in Wrappers : claude[w]

\* What a signal sent to pid reaches at the moment it is sent.
SignalHit(pid) == IF listener = pid THEN "listener" ELSE "bystander"

\* The other wrappers whose claude session is running (through the proxy that
\* their start() found or started).
SessionsUsingProxy(w) == {v \in Wrappers \ {w} : claude[v]}

SignalRecord(w, sig) ==
    [by |-> w, pid |-> lpid[w], sig |-> sig, verifiedOwner |-> vown[w],
     hit |-> SignalHit(lpid[w]), users |-> SessionsUsingProxy(w)]

\* The variables of the other subsystems, which no lifecycle action changes.
LifeFrame == UNCHANGED <<storeVars, hdrVars, sanVars, oriVars, globVars, routeVars, reqVars, respVars, argVars, bufVars>>

(***************************************************************************)
(* bin/cli.ts main() and SingletonProxy.start()                            *)
(***************************************************************************)

\* main() calls proxy.start(); ensureStateDir has run.
MainStart(w) ==
    /\ pc[w] = "idle"
    /\ pc' = [pc EXCEPT ![w] = "recover"]
    /\ UNCHANGED <<lockDir, pidFile, proc, termPending, listener, claude, portL,
                   lpid, res, graceI, holds, vown, spawnCount, signals>>
    /\ LifeFrame

\* recoverStaleLock, lines 216-221: existsSync(lockDir), then isPortListening.
StartRecoverProbe(w) ==
    /\ pc[w] = "recover"
    /\ IF ~lockDir
          THEN pc' = [pc EXCEPT ![w] = "check"] /\ UNCHANGED portL
          ELSE /\ portL' = [portL EXCEPT ![w] = isPortListening]
               /\ pc' = [pc EXCEPT ![w] = "recover2"]
    /\ UNCHANGED <<lockDir, pidFile, proc, termPending, listener, claude,
                   lpid, res, graceI, holds, vown, spawnCount, signals>>
    /\ LifeFrame

\* recoverStaleLock, lines 224-253: read the PID file, decide, and remove
\* lock/ and proxy.pid when the lock is stale.  rmdir of a lock directory that
\* is already gone throws, and then proxy.pid is kept.
StartRecoverDecide(w) ==
    /\ pc[w] = "recover2"
    /\ IF lockIsStale(portL[w]) /\ lockDir
          THEN lockDir' = FALSE /\ pidFile' = NoPid
          ELSE UNCHANGED <<lockDir, pidFile>>
    /\ pc' = [pc EXCEPT ![w] = "check"]
    /\ UNCHANGED <<proc, termPending, listener, claude, portL,
                   lpid, res, graceI, holds, vown, spawnCount, signals>>
    /\ LifeFrame

\* start(), lines 53-67: the port is already listening.
StartCheckPort(w) ==
    /\ pc[w] = "check"
    /\ IF isPortListening
          THEN IF ownProxyRunning
                  THEN /\ res' = [res EXCEPT ![w] = "ok"]
                       /\ pc' = [pc EXCEPT ![w] = "started"]
                  ELSE /\ res' = [res EXCEPT ![w] = "portInUse"]
                       /\ pc' = [pc EXCEPT ![w] = "exited"]
          ELSE pc' = [pc EXCEPT ![w] = "acquire"] /\ UNCHANGED res
    /\ UNCHANGED <<lockDir, pidFile, proc, termPending, listener, claude, portL,
                   lpid, graceI, holds, vown, spawnCount, signals>>
    /\ LifeFrame

\* acquireLock(), lines 188-195: mkdir(lockDir) fails when it exists.
StartAcquire(w) ==
    /\ pc[w] = "acquire"
    /\ IF ~lockDir
          THEN /\ lockDir' = TRUE
               /\ holds' = [holds EXCEPT ![w] = TRUE]
               /\ pc' = [pc EXCEPT ![w] = "dcheck"]
          ELSE /\ pc' = [pc EXCEPT ![w] = "waitOther"]
               /\ UNCHANGED <<lockDir, holds>>
    /\ UNCHANGED <<pidFile, proc, termPending, listener, claude, portL,
                   lpid, res, graceI, vown, spawnCount, signals>>
    /\ LifeFrame

\* start(), lines 79-90: the double check while holding the lock.
StartDoubleCheck(w) ==
    /\ pc[w] = "dcheck"
    /\ IF isPortListening
          THEN /\ res' = [res EXCEPT ![w] =
                            IF ownProxyRunning THEN "ok" ELSE "portInUse"]
               /\ pc' = [pc EXCEPT ![w] = "release"]
          ELSE pc' = [pc EXCEPT ![w] = "spawn"] /\ UNCHANGED res
    /\ UNCHANGED <<lockDir, pidFile, proc, termPending, listener, claude, portL,
                   lpid, graceI, holds, vown, spawnCount, signals>>
    /\ LifeFrame

\* startProxyProcess(), lines 319-333: spawn the detached server.
StartSpawn(w) ==
    /\ pc[w] = "spawn"
    /\ \E p \in Pids :
          /\ proc[p] = "none"
          /\ proc' = [proc EXCEPT ![p] = "proxy"]
          /\ lpid' = [lpid EXCEPT ![w] = p]
    /\ spawnCount' = spawnCount + 1
    /\ pc' = [pc EXCEPT ![w] = "writePid"]
    /\ UNCHANGED <<lockDir, pidFile, termPending, listener, claude, portL,
                   res, graceI, holds, vown, signals>>
    /\ LifeFrame

\* startProxyProcess(), lines 314-316 and 328-331: no server entry point, or
\* no valid pid from spawn.
StartSpawnFail(w) ==
    /\ pc[w] = "spawn"
    /\ res' = [res EXCEPT ![w] = "spawnFail"]
    /\ pc' = [pc EXCEPT ![w] = "release"]
    /\ UNCHANGED <<lockDir, pidFile, proc, termPending, listener, claude, portL,
                   lpid, graceI, holds, vown, spawnCount, signals>>
    /\ LifeFrame

\* startProxyProcess(), line 334: writePidFile(pidFile, pid).
StartWritePid(w) ==
    /\ pc[w] = "writePid"
    /\ pidFile' = lpid[w]
    /\ pc' = [pc EXCEPT ![w] = "waitOwn"]
    /\ UNCHANGED <<lockDir, proc, termPending, listener, claude, portL,
                   lpid, res, graceI, holds, vown, spawnCount, signals>>
    /\ LifeFrame

\* waitForReady(), lines 295-298: a poll finds the port listening.
WaitReadyOk(w) ==
    /\ pc[w] \in {"waitOther", "waitOwn"}
    /\ isPortListening
    /\ res' = [res EXCEPT ![w] = "ok"]
    /\ pc' = [pc EXCEPT ![w] = IF pc[w] = "waitOwn" THEN "release" ELSE "started"]
    /\ UNCHANGED <<lockDir, pidFile, proc, termPending, listener, claude, portL,
                   lpid, graceI, holds, vown, spawnCount, signals>>
    /\ LifeFrame

\* waitForReady(), lines 302-304: the deadline passes with the port silent.
WaitReadyTimeout(w) ==
    /\ pc[w] \in {"waitOther", "waitOwn"}
    /\ ~isPortListening
    /\ res' = [res EXCEPT ![w] = "timeout"]
    /\ pc' = [pc EXCEPT ![w] = IF pc[w] = "waitOwn" THEN "release" ELSE "exited"]
    /\ UNCHANGED <<lockDir, pidFile, proc, termPending, listener, claude, portL,
                   lpid, graceI, holds, vown, spawnCount, signals>>
    /\ LifeFrame

\* A start() that releases the lock only after a successful start.
StartRelease_OnSuccess(w) ==
    /\ pc[w] = "release"
    /\ lockDir' = IF res[w] = "ok" THEN FALSE ELSE lockDir
    /\ holds' = [holds EXCEPT ![w] = IF res[w] = "ok" THEN FALSE ELSE holds[w]]
    /\ pc' = [pc EXCEPT ![w] = IF res[w] = "ok" THEN "started" ELSE "exited"]
    /\ UNCHANGED <<pidFile, proc, termPending, listener, claude, portL,
                   lpid, res, graceI, vown, spawnCount, signals>>
    /\ LifeFrame

\* releaseLock() in start()'s finally, lines 97-99 and 200-206: rmdir(lockDir),
\* errors ignored.
StartRelease(w) ==
    /\ pc[w] = "release"
    /\ lockDir' = FALSE
    /\ holds' = [holds EXCEPT ![w] = FALSE]
    /\ pc' = [pc EXCEPT ![w] = IF res[w] = "ok" THEN "started" ELSE "exited"]
    /\ UNCHANGED <<pidFile, proc, termPending, listener, claude, portL,
                   lpid, res, graceI, vown, spawnCount, signals>>
    /\ LifeFrame

(***************************************************************************)
(* The spawned server (proxy/server.ts createProxyServer)                  *)
(***************************************************************************)

\* server.listen(port, host): binds the port, or dies of the unhandled
\* EADDRINUSE error when the port is taken.
ProxyListen(p) ==
    /\ proc[p] = "proxy"
    /\ listener # p
    /\ IF listener = NoPid
          THEN listener' = p /\ UNCHANGED <<proc, termPending>>
          ELSE /\ proc' = [proc EXCEPT ![p] = "none"]
               /\ termPending' = termPending \ {p}
               /\ UNCHANGED listener
    /\ UNCHANGED <<pc, lockDir, pidFile, claude, portL,
                   lpid, res, graceI, holds, vown, spawnCount, signals>>
    /\ LifeFrame

\* A process that received SIGTERM exits.
ExitOnSigterm(p) ==
    /\ p \in termPending
    /\ proc' = [proc EXCEPT ![p] = "none"]
    /\ termPending' = termPending \ {p}
    /\ listener' = IF listener = p THEN NoPid ELSE listener
    /\ UNCHANGED <<pc, lockDir, pidFile, claude, portL,
                   lpid, res, graceI, holds, vown, spawnCount, signals>>
    /\ LifeFrame

(***************************************************************************)
(* bin/cli.ts main() after start(), stopIfNoClaude() and stop()            *)
(***************************************************************************)

\* main(), lines 138-141: spawn claude.
SpawnClaude(w) ==
    /\ pc[w] = "started"
    /\ claude' = [claude EXCEPT ![w] = TRUE]
    /\ pc' = [pc EXCEPT ![w] = "running"]
    /\ UNCHANGED <<lockDir, pidFile, proc, termPending, listener, portL,
                   lpid, res, graceI, holds, vown, spawnCount, signals>>
    /\ LifeFrame

\* main(), lines 144-153: claude exits.
ClaudeExit(w) ==
    /\ pc[w] = "running"
    /\ claude' = [claude EXCEPT ![w] = FALSE]
    /\ pc' = [pc EXCEPT ![w] = "checkClaude"]
    /\ UNCHANGED <<lockDir, pidFile, proc, termPending, listener, portL,
                   lpid, res, graceI, holds, vown, spawnCount, signals>>
    /\ LifeFrame

\* main(), lines 159-165: stop only when no claude process is found.
MainCheckClaude(w) ==
    /\ pc[w] = "checkClaude"
    /\ IF hasClaudeProcess
          THEN pc' = [pc EXCEPT ![w] = "exited"] /\ UNCHANGED graceI
          ELSE /\ pc' = [pc EXCEPT ![w] = "grace"]
               /\ graceI' = [graceI EXCEPT ![w] = 0]
    /\ UNCHANGED <<lockDir, pidFile, proc, termPending, listener, claude, portL,
                   lpid, res, holds, vown, spawnCount, signals>>
    /\ LifeFrame

\* A grace loop that sleeps through its ticks without asking for claude.
GraceTick_NoPoll(w) ==
    /\ pc[w] = "grace"
    /\ graceI[w] < StopGraceSeconds
    /\ graceI' = [graceI EXCEPT ![w] = graceI[w] + 1]
    /\ UNCHANGED <<pc, lockDir, pidFile, proc, termPending, listener, claude, portL,
                   lpid, res, holds, vown, spawnCount, signals>>
    /\ LifeFrame

\* stopIfNoClaude(), lines 109-114: one tick of the grace loop.
GraceTick(w) ==
    /\ pc[w] = "grace"
    /\ graceI[w] < StopGraceSeconds
    /\ IF hasClaudeProcess
          THEN pc' = [pc EXCEPT ![w] = "exited"] /\ UNCHANGED graceI
          ELSE graceI' = [graceI EXCEPT ![w] = graceI[w] + 1] /\ UNCHANGED pc
    /\ UNCHANGED <<lockDir, pidFile, proc, termPending, listener, claude, portL,
                   lpid, res, holds, vown, spawnCount, signals>>
    /\ LifeFrame

\* stopIfNoClaude() line 117 and stop() lines 125-131: the last sleep of the
\* grace loop is over; read the PID file and verify that the pid owns the port.
StopRead(w) ==
    /\ pc[w] = "grace"
    /\ graceI[w] >= StopGraceSeconds
    /\ LET pid == readPidFile
       IN  IF pid # NoPid /\ pid > 0
              THEN /\ lpid' = [lpid EXCEPT ![w] = pid]
                   /\ vown' = [vown EXCEPT ![w] = (listener = pid)]
                   /\ pc' = [pc EXCEPT ![w] =
                               IF verifyPidOwnsPort(pid) THEN "stopTerm" ELSE "stopRm"]
              ELSE /\ pc' = [pc EXCEPT ![w] = "stopRm"]
                   /\ UNCHANGED <<lpid, vown>>
    /\ UNCHANGED <<lockDir, pidFile, proc, termPending, listener, claude, portL,
                   res, graceI, holds, spawnCount, signals>>
    /\ LifeFrame

\* stop(), lines 133-143: process.kill(pid, "SIGTERM").  When no process has
\* the pid, kill fails with ESRCH, which is caught: no signal is sent.
StopTerm(w) ==
    /\ pc[w] = "stopTerm"
    /\ IF proc[lpid[w]] # "none"
          THEN /\ signals' = signals \cup {SignalRecord(w, "SIGTERM")}
               /\ termPending' = termPending \cup {lpid[w]}
          ELSE UNCHANGED <<signals, termPending>>
    /\ pc' = [pc EXCEPT ![w] = "stopWait"]
    /\ UNCHANGED <<lockDir, pidFile, proc, listener, claude, portL,
                   lpid, res, graceI, holds, vown, spawnCount>>
    /\ LifeFrame

\* A stop() that kills after the wait without looking at the pid again.
StopWaitEnd_NoRecheck(w) ==
    /\ pc[w] = "stopWait"
    /\ pc' = [pc EXCEPT ![w] = "stopKill"]
    /\ UNCHANGED <<lockDir, pidFile, proc, termPending, listener, claude, portL,
                   lpid, res, graceI, holds, vown, spawnCount, signals>>
    /\ LifeFrame

\* stop(), lines 146-155: the wait loop ends, because the pid is gone or
\* because 3 seconds have passed; in the latter case verify the pid again.
StopWaitEnd(w) ==
    /\ pc[w] = "stopWait"
    /\ IF ~pidIsAlive(lpid[w])
          THEN pc' = [pc EXCEPT ![w] = "stopRm"] /\ UNCHANGED vown
          ELSE /\ vown' = [vown EXCEPT ![w] = (listener = lpid[w])]
               /\ pc' = [pc EXCEPT ![w] =
                           IF verifyPidOwnsPort(lpid[w]) THEN "stopKill" ELSE "stopRm"]
    /\ UNCHANGED <<lockDir, pidFile, proc, termPending, listener, claude, portL,
                   lpid, res, graceI, holds, spawnCount, signals>>
    /\ LifeFrame

\* stop(), lines 156-165: process.kill(pid, "SIGKILL"); the process dies.
\* When no process has the pid, kill fails with ESRCH: no signal is sent.
StopKill(w) ==
    /\ pc[w] = "stopKill"
    /\ signals' = IF proc[lpid[w]] # "none"
                     THEN signals \cup {SignalRecord(w, "SIGKILL")} ELSE signals
    /\ proc' = [proc EXCEPT ![lpid[w]] = "none"]
    /\ termPending' = termPending \ {lpid[w]}
    /\ listener' = IF listener = lpid[w] THEN NoPid ELSE listener
    /\ pc' = [pc EXCEPT ![w] = "stopRm"]
    /\ UNCHANGED <<lockDir, pidFile, claude, portL,
                   lpid, res, graceI, holds, vown, spawnCount>>
    /\ LifeFrame

\* stop(), line 174: removePidFile, whatever happened before.
StopRemovePid(w) ==
    /\ pc[w] = "stopRm"
    /\ pidFile' = NoPid
    /\ pc' = [pc EXCEPT ![w] = "exited"]
    /\ UNCHANGED <<lockDir, proc, termPending, listener, claude, portL,
                   lpid, res, graceI, holds, vown, spawnCount, signals>>
    /\ LifeFrame

(***************************************************************************)
(* The environment: other processes of the machine                         *)
(***************************************************************************)

\* The proxy server crashes.
ProxyCrash(p) ==
    /\ proc[p] = "proxy"
    /\ proc' = [proc EXCEPT ![p] = "none"]
    /\ termPending' = termPending \ {p}
    /\ listener' = IF listener = p THEN NoPid ELSE listener
    /\ UNCHANGED <<pc, lockDir, pidFile, claude, portL,
                   lpid, res, graceI, holds, vown, spawnCount, signals>>
    /\ LifeFrame

\* The operating system gives a free pid to an unrelated process.
PidReuse(p) ==
    /\ proc[p] = "none"
    /\ proc' = [proc EXCEPT ![p] = "other"]
    /\ UNCHANGED <<pc, lockDir, pidFile, termPending, listener, claude, portL,
                   lpid, res, graceI, holds, vown, spawnCount, signals>>
    /\ LifeFrame

\* An unrelated process binds the free port.
ForeignListen(p) ==
    /\ proc[p] = "other"
    /\ listener = NoPid
    /\ listener' = p
    /\ UNCHANGED <<pc, lockDir, pidFile, proc, termPending, claude, portL,
                   lpid, res, graceI, holds, vown, spawnCount, signals>>
    /\ LifeFrame

(***************************************************************************)
(* --------------------------- SIGNATURE STORE --------------------------- *)
(***************************************************************************)

\* JSON values.  A field of a content block is a string; the strings below
\* stand for a missing field and for the values that are not strings.
Absent == "<undefined>"
JsNull == "<null>"
JsNumber == "<42>"
JsArray == "<array>"
JsObjects ==
    {"<{content}>", "<{thinking}>", "<{text}>", "<{other}>", "<{ephemeral}>",
     "<{content,thinking,text}>", "<{thinking,text}>"}

\* typeof value.
TypeOf(value) ==
    CASE value = Absent -> "undefined"
      [] value = JsNull -> "object"
      [] value = JsArray -> "object"
      [] value \in JsObjects -> "object"
      [] value = JsNumber -> "number"
      [] OTHER -> "string"

\* typeof signature === "string" && signature
IsNonEmptyString(value) == TypeOf(value) = "string" /\ value # ""

\* !value, for the values above.
Falsy(value) == value \in {"", Absent, JsNull}

\* The signatures the proxy sees; "" is the empty string, which add() and
\* has() reject.
Sigs == {"s1", "s2", "s3", "s4"}
SigInputs == Sigs \cup {""}

\* The capacity the store is constructed with (config.signatureStore.maxSize).
StoreMaxSize == 2

\* The number of accesses one run of the store model records.
MaxStoreOps == 5

Range(q) == {q[i] : i \in 1..Len(q)}

\* Array.prototype.splice(index, 1) at the index of x / Map.prototype.delete(x).
Without(q, x) == SelectSeq(q, LAMBDA y : y # x)

\* signature-store.ts moveToEnd(): splice the signature out and push it.
moveToEnd(order, signature) ==
    IF signature \in Range(order)
       THEN Append(Without(order, signature), signature)
       ELSE order

\* signature-store.ts add().  A store is [cache, accessOrder].
SignatureStore_add(st, signature) ==
    IF Falsy(signature) THEN st
    ELSE IF signature \in st.cache
       THEN [st EXCEPT !.accessOrder = moveToEnd(st.accessOrder, signature)]
       ELSE LET full == Cardinality(st.cache) >= StoreMaxSize
                shifted == IF full /\ st.accessOrder # <<>>
                              THEN Tail(st.accessOrder) ELSE st.accessOrder
                kept == IF full /\ st.accessOrder # <<>>
                           THEN st.cache \ {Head(st.accessOrder)} ELSE st.cache
            IN  [cache |-> kept \cup {signature},
                 accessOrder |-> Append(shifted, signature)]

\* A has() that reports a hit without marking the entry as recently used.
SignatureStore_has_NoPromote(st, signature) ==
    [store |-> st, result |-> ~Falsy(signature) /\ signature \in st.cache]

\* signature-store.ts has(): the answer, and the store after the promotion.
SignatureStore_has(st, signature) ==
    IF Falsy(signature) THEN [store |-> st, result |-> FALSE]
    ELSE IF signature \in st.cache
       THEN [store |-> [st EXCEPT !.accessOrder = moveToEnd(st.accessOrder, signature)],
             result |-> TRUE]
       ELSE [store |-> st, result |-> FALSE]

\* signature-store.ts clear().
SignatureStore_clear == [cache |-> {}, accessOrder |-> <<>>]

\* part_006 SignatureStore.add(): delete-then-set on a Map whose iteration
\* order is its insertion order; m is the sequence of its keys.
MapStore_add(m, signature) ==
    IF ~IsNonEmptyString(signature) THEN m
    ELSE IF signature \in Range(m) THEN Append(Without(m, signature), signature)
    ELSE IF Len(m) >= StoreMaxSize /\ m # <<>> THEN Append(Tail(m), signature)
    ELSE Append(m, signature)

\* part_006 SignatureStore.has().
MapStore_has(m, signature) ==
    IF ~IsNonEmptyString(signature) THEN [store |-> m, result |-> FALSE]
    ELSE IF signature \in Range(m)
       THEN [store |-> Append(Without(m, signature), signature), result |-> TRUE]
       ELSE [store |-> m, result |-> FALSE]

\* The variables of the other subsystems, which no store action changes.
StoreFrame == UNCHANGED <<lifeVars, hdrVars, sanVars, oriVars, globVars, routeVars, reqVars, respVars, argVars, bufVars>>

StoreInit ==
    /\ cache = {}
    /\ accessOrder = <<>>
    /\ mapCache = <<>>
    /\ lastHas = <<FALSE, FALSE>>
    /\ accessLog = <<>>

\* The store of a model that does not exercise it.
StoreIdle == StoreInit

\* store.add(signature), on both versions of the class.
StoreAdd(signature) ==
    /\ Len(accessLog) < MaxStoreOps
    /\ LET st == SignatureStore_add([cache |-> cache, accessOrder |-> accessOrder],
                                    signature)
       IN  cache' = st.cache /\ accessOrder' = st.accessOrder
    /\ mapCache' = MapStore_add(mapCache, signature)
    /\ accessLog' = IF signature # "" THEN Append(accessLog, signature) ELSE accessLog
    /\ UNCHANGED lastHas
    /\ StoreFrame

\* store.has(signature), on both versions of the class.
StoreHas(signature) ==
    /\ Len(accessLog) < MaxStoreOps
    /\ LET h == SignatureStore_has([cache |-> cache, accessOrder |-> accessOrder],
                                   signature)
           g == MapStore_has(mapCache, signature)
       IN  /\ cache' = h.store.cache
           /\ accessOrder' = h.store.accessOrder
           /\ mapCache' = g.store
           /\ lastHas' = <<h.result, g.result>>
           /\ accessLog' = IF h.result THEN Append(accessLog, signature) ELSE accessLog
    /\ StoreFrame

\* store.clear(), on both versions of the class.
StoreClear ==
    /\ accessLog # <<>>
    /\ cache' = SignatureStore_clear.cache
    /\ accessOrder' = SignatureStore_clear.accessOrder
    /\ mapCache' = <<>>
    /\ accessLog' = <<>>
    /\ UNCHANGED lastHas
    /\ StoreFrame

\* What a caller can pass as signature: the type says string, the value is
\* whatever the JSON of a response or a request held.
ArgValues == {"s1", "s2", "", JsNumber, JsNull, Absent, "<{other}>"}

ArgFrame ==
    UNCHANGED <<lifeVars, hdrVars, sanVars, oriVars, globVars, routeVars, reqVars, respVars, bufVars>>

\* No call made yet.
ArgIdle == lastCall = [op |-> "none", value |-> Absent, n |-> 0]

\* store.add(value) with an argument of any type, on both versions of the
\* class.
StoreAddValue ==
    /\ lastCall.n < MaxStoreOps
    /\ \E value \in ArgValues :
          /\ lastCall' = [op |-> "add", value |-> value, n |-> lastCall.n + 1]
          /\ LET st == SignatureStore_add([cache |-> cache, accessOrder |-> accessOrder],
                                          value)
             IN  cache' = st.cache /\ accessOrder' = st.accessOrder
          /\ mapCache' = MapStore_add(mapCache, value)
          /\ accessLog' = IF Falsy(value) THEN accessLog ELSE Append(accessLog, value)
    /\ UNCHANGED lastHas
    /\ ArgFrame

\* store.has(value) with an argument of any type, on both versions of the
\* class.
StoreHasValue ==
    /\ lastCall.n < MaxStoreOps
    /\ \E value \in ArgValues :
          /\ lastCall' = [op |-> "has", value |-> value, n |-> lastCall.n + 1]
          /\ LET h == SignatureStore_has([cache |-> cache, accessOrder |-> accessOrder],
                                         value)
                 g == MapStore_has(mapCache, value)
             IN  /\ cache' = h.store.cache
                 /\ accessOrder' = h.store.accessOrder
                 /\ mapCache' = g.store
                 /\ lastHas' = <<h.result, g.result>>
                 /\ accessLog' = IF h.result THEN Append(accessLog, value) ELSE accessLog
    /\ ArgFrame

ArgNext == StoreAddValue \/ StoreHasValue

StoreNext ==
    \/ \E signature \in SigInputs : StoreAdd(signature)
    \/ \E signature \in SigInputs : StoreHas(signature)
    \/ StoreClear

(***************************************************************************)
(* --------------------------- FORWARD HEADERS --------------------------- *)
(***************************************************************************)

\* server.ts HOP_BY_HOP_HEADERS.
HOP_BY_HOP_HEADERS ==
    {"connection", "keep-alive", "proxy-authenticate", "proxy-authorization",
     "te", "trailers", "transfer-encoding", "upgrade", "proxy-connection"}

\* server.ts SECURITY_HEADERS_TO_REMOVE.
SECURITY_HEADERS_TO_REMOVE ==
    {"x-forwarded-for", "x-forwarded-host", "x-forwarded-proto",
     "x-forwarded-port", "x-real-ip", "forwarded"}

\* The header names a client request may carry.  node's http parser gives
\* req.headers lower-cased names, so key.toLowerCase() finds them unchanged.
HeaderNames ==
    {"accept-encoding", "authorization", "connection", "content-length",
     "content-type", "host", "x-forwarded-for", "x-api-key", "x-custom", "te"}

AuthorizationValues == {"Bearer oauth-1", "Bearer oauth-2"}
ConnectionValues == {"keep-alive", "close, Authorization", "X-Custom,, x-api-key"}

\* The value the client sent for the headers whose value does not matter.
ClientValue(name) ==
    CASE name = "content-length" -> "10"
      [] name = "accept-encoding" -> "gzip, br"
      [] name = "content-type" -> "application/json"
      [] name = "host" -> "127.0.0.1:8787"
      [] name = "x-forwarded-for" -> "10.0.0.1"
      [] name = "x-api-key" -> "client-key"
      [] name = "x-custom" -> "1"
      [] name = "te" -> "trailers"
      [] OTHER -> ""

\* String(Buffer.byteLength(forwardBody)) of the rewritten body.
ForwardBodyLength == "12"

\* value.split(","): the pieces of a Connection header value.
SplitComma(value) ==
    CASE value = "keep-alive" -> <<"keep-alive">>
      [] value = "close, Authorization" -> <<"close", " Authorization">>
      [] value = "X-Custom,, x-api-key" -> <<"X-Custom", "", " x-api-key">>
      [] OTHER -> <<value>>

\* h.trim().toLowerCase() of one piece.
TrimLower(h) ==
    CASE h = " Authorization" -> "authorization"
      [] h = "X-Custom" -> "x-custom"
      [] h = " x-api-key" -> "x-api-key"
      [] OTHER -> h

\* A parser that finds no header name in the Connection header.
parseConnectionHeader_None(headers) == {}

\* server.ts parseConnectionHeader(): the header names the Connection header lists.
parseConnectionHeader(headers) ==
    IF "connection" \notin DOMAIN headers \/ headers["connection"] = "" THEN {}
    ELSE LET pieces == SplitComma(headers["connection"])
         IN  {TrimLower(pieces[i]) : i \in 1..Len(pieces)} \ {""}

\* The routes selectRoute() can return: name and the configured apiKey
\* ("" when none is configured).
Routes ==
    {[name |-> "anthropic", apiKey |-> ""],
     [name |-> "zai", apiKey |-> ""],
     [name |-> "zai", apiKey |-> "zai-key"]}

\* A function with one more, or one changed, entry: obj[key] = value.
SetKey(obj, key, value) ==
    [k \in DOMAIN obj \cup {key} |-> IF k = key THEN value ELSE obj[k]]

\* delete obj[key].
DeleteKey(obj, key) == [k \in DOMAIN obj \ {key} |-> obj[k]]

\* A forward step that leaves the client's authorization in place for z.ai.
replaceAuthorization_Keep(headers, route) ==
    IF route.name = "zai" /\ route.apiKey # ""
       THEN SetKey(headers, "x-api-key", route.apiKey)
       ELSE headers

\* server.ts buildForwardHeaders(), lines 475-482: for z.ai delete
\* authorization and, with an apiKey, set x-api-key.
replaceAuthorization(headers, route) ==
    IF route.name = "zai"
       THEN LET h == DeleteKey(headers, "authorization")
            IN  IF route.apiKey # "" THEN SetKey(h, "x-api-key", route.apiKey) ELSE h
       ELSE headers

\* server.ts buildForwardHeaders().
buildForwardHeaders(headers, route, rewritten) ==
    LET connectionHeaders == parseConnectionHeader(headers)
        keptNames == {k \in DOMAIN headers :
                         /\ k \notin HOP_BY_HOP_HEADERS
                         /\ k \notin connectionHeaders
                         /\ k \notin SECURITY_HEADERS_TO_REMOVE
                         /\ k # "host"}
        copied == [k \in keptNames |->
                      IF k = "content-length" /\ rewritten
                         THEN ForwardBodyLength ELSE headers[k]]
        identity == SetKey(copied, "accept-encoding", "identity")
        sized == IF rewritten /\ "content-length" \notin DOMAIN identity
                    THEN SetKey(identity, "content-length", ForwardBodyLength)
                    ELSE identity
    IN  replaceAuthorization(sized, route)

NoHeaders == [k \in {} |-> ""]

\* The requests a client can send: any subset of the header names.
ClientRequests ==
    {[k \in names |->
         IF k = "authorization" THEN a
         ELSE IF k = "connection" THEN c ELSE ClientValue(k)] :
       names \in SUBSET HeaderNames, a \in AuthorizationValues, c \in ConnectionValues}

HdrFrame == UNCHANGED <<lifeVars, storeVars, sanVars, oriVars, globVars, routeVars, reqVars, respVars, argVars, bufVars>>

\* No request in progress.
HdrIdle ==
    /\ hdrPc = "idle"
    /\ reqHeaders = NoHeaders
    /\ target = [name |-> "anthropic", apiKey |-> ""]
    /\ bodyWasRewritten = FALSE
    /\ forwardHeaders = NoHeaders

\* handleRequest, lines 91-206: a request has been read and routed.
ReceiveRequest ==
    /\ hdrPc = "idle"
    /\ \E h \in ClientRequests, r \in Routes, b \in BOOLEAN :
          /\ reqHeaders' = h
          /\ target' = r
          /\ bodyWasRewritten' = b
    /\ hdrPc' = "received"
    /\ UNCHANGED forwardHeaders
    /\ HdrFrame

\* handleRequest, lines 207-213: the upstream request is created with the
\* headers buildForwardHeaders() returns.
ForwardRequest ==
    /\ hdrPc = "received"
    /\ forwardHeaders' = buildForwardHeaders(reqHeaders, target, bodyWasRewritten)
    /\ hdrPc' = "forwarded"
    /\ UNCHANGED <<reqHeaders, target, bodyWasRewritten>>
    /\ HdrFrame

HdrNext == ReceiveRequest \/ ForwardRequest

(***************************************************************************)
(* ------------------------- REQUEST SANITIZER --------------------------- *)
(***************************************************************************)

\* obj[field] of the object values.
ObjField(obj, field) ==
    CASE obj = "<{content}>" /\ field = "content" -> "object content"
      [] obj = "<{thinking}>" /\ field = "thinking" -> "object thinking"
      [] obj = "<{text}>" /\ field = "text" -> "object text"
      [] obj = "<{content,thinking,text}>" /\ field = "content" -> "object content"
      [] obj = "<{content,thinking,text}>" /\ field = "thinking" -> "object thinking"
      [] obj = "<{content,thinking,text}>" /\ field = "text" -> "object text"
      [] obj = "<{thinking,text}>" /\ field = "thinking" -> "object thinking"
      [] obj = "<{thinking,text}>" /\ field = "text" -> "object text"
      [] OTHER -> Absent

\* JSON.stringify(obj) of the object values.
JSONstringify(obj) ==
    CASE obj = "<{content}>" -> "{\"content\":\"object content\"}"
      [] obj = "<{thinking}>" -> "{\"thinking\":\"object thinking\"}"
      [] obj = "<{text}>" -> "{\"text\":\"object text\"}"
      [] obj = "<{ephemeral}>" -> "{\"type\":\"ephemeral\"}"
      [] obj = "<{content,thinking,text}>" ->
             "{\"content\":\"object content\",\"thinking\":\"object thinking\",\"text\":\"object text\"}"
      [] obj = "<{thinking,text}>" ->
             "{\"thinking\":\"object thinking\",\"text\":\"object text\"}"
      [] obj = JsArray -> "[]"
      [] OTHER -> "{\"other\":1}"

\* The fields a content block can have; `nested` is the array a tool_result
\* has as content (its content field is then JsArray).
BlockFields ==
    {"type", "text", "id", "tool_use_id", "signature", "thinking", "content",
     "cache_control"}

NoBlock ==
    [type |-> Absent, text |-> Absent, id |-> Absent, tool_use_id |-> Absent,
     signature |-> Absent, thinking |-> Absent, content |-> Absent,
     cache_control |-> Absent, nested |-> <<>>]

\* Object.keys(block).
Fields(block) == {f \in BlockFields : block[f] # Absent}

TextBlock(text) == [NoBlock EXCEPT !.type = "text", !.text = text]
ToolUse(id) == [NoBlock EXCEPT !.type = "tool_use", !.id = id]
ToolResult(toolUseId, content) ==
    [NoBlock EXCEPT !.type = "tool_result", !.tool_use_id = toolUseId,
                    !.content = content]
ToolResultOf(toolUseId, blocks) ==
    [NoBlock EXCEPT !.type = "tool_result", !.tool_use_id = toolUseId,
                    !.content = JsArray, !.nested = blocks]
Thinking(signature, thinking, content, cacheControl) ==
    [NoBlock EXCEPT !.type = "thinking", !.signature = signature,
                    !.thinking = thinking, !.content = content,
                    !.cache_control = cacheControl]

\* transform.ts convertThinkingToText(): the text taken from the block.
thinkingText(block) ==
    IF TypeOf(block.thinking) = "string" THEN block.thinking
    ELSE IF TypeOf(block.content) = "string" THEN block.content
    ELSE IF TypeOf(block.thinking) = "object" /\ block.thinking # JsNull THEN
        IF TypeOf(ObjField(block.thinking, "content")) = "string"
           THEN ObjField(block.thinking, "content")
        ELSE IF TypeOf(ObjField(block.thinking, "thinking")) = "string"
           THEN ObjField(block.thinking, "thinking")
        ELSE IF TypeOf(ObjField(block.thinking, "text")) = "string"
           THEN ObjField(block.thinking, "text")
        ELSE JSONstringify(block.thinking)
    ELSE IF TypeOf(block.content) = "object" /\ block.content # JsNull THEN
        IF TypeOf(ObjField(block.content, "text")) = "string"
           THEN ObjField(block.content, "text")
        ELSE JSONstringify(block.content)
    ELSE ""

\* transform.ts convertThinkingToText().
convertThinkingToText(block) ==
    TextBlock("<previous-glm-reasoning>\n" \o thinkingText(block)
              \o "\n</previous-glm-reasoning>")

\* A sanitizer that drops the thinking sub-field of the blocks it keeps.
sanitizeThinkingWithStore_StripThinking(block, recorded) ==
    IF IsNonEmptyString(block.signature) /\ block.signature \in recorded
       THEN [block EXCEPT !.thinking = Absent]
    ELSE IF block.thinking # Absent THEN convertThinkingToText(block)
    ELSE IF IsNonEmptyString(block.signature) THEN block
    ELSE convertThinkingToText(block)

\* A sanitizer that keeps a thinking block only when the store holds its
\* signature.
sanitizeThinkingWithStore_RecordedOnly(block, recorded) ==
    IF IsNonEmptyString(block.signature) /\ block.signature \in recorded
       THEN block
    ELSE convertThinkingToText(block)

\* A sanitizer that looks at the signature before the thinking sub-field.
sanitizeThinkingWithStore_SignatureFirst(block, recorded) ==
    IF IsNonEmptyString(block.signature) THEN block
    ELSE convertThinkingToText(block)

\* transform.ts sanitizeContentBlockWithStore(), lines 331-354: the four
\* rules for a thinking block; `recorded` is the set of signatures for which
\* store.has() answers true.
sanitizeThinkingWithStore(block, recorded) ==
    IF IsNonEmptyString(block.signature) /\ block.signature \in recorded
       THEN block
    ELSE IF block.thinking # Absent THEN convertThinkingToText(block)
    ELSE IF IsNonEmptyString(block.signature) THEN block
    ELSE convertThinkingToText(block)

\* transform.ts sanitizeContentBlockWithStore().
RECURSIVE sanitizeContentBlockWithStore(_, _)
sanitizeContentBlockWithStore(block, recorded) ==
    IF block.type = "thinking" THEN sanitizeThinkingWithStore(block, recorded)
    ELSE IF block.type = "tool_result" /\ block.content = JsArray THEN
        [block EXCEPT !.nested =
            [i \in 1..Len(block.nested) |->
                sanitizeContentBlockWithStore(block.nested[i], recorded)]]
    ELSE block

\* The signatures sanitizeContentBlockWithStore() passes to store.has(), in
\* the order of the calls.
RECURSIVE blockLookups(_)
RECURSIVE blocksLookups(_)
blockLookups(block) ==
    IF block.type = "thinking"
       THEN IF IsNonEmptyString(block.signature) THEN <<block.signature>> ELSE <<>>
    ELSE IF block.type = "tool_result" /\ block.content = JsArray
       THEN blocksLookups(block.nested)
    ELSE <<>>

blocksLookups(blocks) ==
    IF blocks = <<>> THEN <<>>
    ELSE blockLookups(Head(blocks)) \o blocksLookups(Tail(blocks))

\* The content of a message: a string, an array of blocks, or another JSON
\* value (null, a number, an object).
StrContent(str) == [kind |-> "string", str |-> str, blocks |-> <<>>]
ArrContent(blocks) == [kind |-> "array", str |-> "", blocks |-> blocks]
OtherContent == [kind |-> "other", str |-> "", blocks |-> <<>>]

Message(role, content) == [role |-> role, content |-> content]

\* transform.ts sanitizeMessageWithStore().
sanitizeMessageWithStore(message, recorded) ==
    IF message.content.kind = "array"
       THEN [message EXCEPT !.content.blocks =
                [i \in 1..Len(message.content.blocks) |->
                    sanitizeContentBlockWithStore(message.content.blocks[i], recorded)]]
       ELSE message

\* The store.has() calls of the messages.map() of sanitizeContentBlocksWithStore.
RECURSIVE messagesLookups(_)
messagesLookups(messages) ==
    IF messages = <<>> THEN <<>>
    ELSE (IF Head(messages).content.kind = "array"
             THEN blocksLookups(Head(messages).content.blocks) ELSE <<>>)
         \o messagesLookups(Tail(messages))

\* transform.ts toContentBlocks().
toContentBlocks(content) ==
    IF content.kind = "string" THEN <<TextBlock(content.str)>> ELSE content.blocks

\* transform.ts mergeMessages(): spreading a content that is neither a
\* string nor an array raises a TypeError.
mergeThrows(a, b) ==
    /\ ~(a.content.kind = "string" /\ b.content.kind = "string")
    /\ (a.content.kind = "other" \/ b.content.kind = "other")

mergeMessages(a, b) ==
    IF a.content.kind = "string" /\ b.content.kind = "string"
       THEN [a EXCEPT !.content = StrContent(a.content.str \o "\n\n" \o b.content.str)]
       ELSE [a EXCEPT !.content =
                ArrContent(toContentBlocks(a.content) \o toContentBlocks(b.content))]

\* sanitizeMessageStructure step 1: current.slice(startIdx).
RECURSIVE dropLeadingNonUser(_)
dropLeadingNonUser(messages) ==
    IF messages # <<>> /\ Head(messages).role # "user"
       THEN dropLeadingNonUser(Tail(messages))
       ELSE messages

\* sanitizeMessageStructure step 2: the loop that builds `merged`.
RECURSIVE mergeSameRole(_, _, _)
mergeSameRole(merged, rest, threw) ==
    IF rest = <<>> \/ threw THEN [messages |-> merged, threw |-> threw]
    ELSE IF merged # <<>> /\ merged[Len(merged)].role = Head(rest).role
       THEN IF mergeThrows(merged[Len(merged)], Head(rest))
               THEN [messages |-> merged, threw |-> TRUE]
               ELSE mergeSameRole(
                       [merged EXCEPT ![Len(merged)] =
                           mergeMessages(merged[Len(merged)], Head(rest))],
                       Tail(rest), FALSE)
       ELSE mergeSameRole(Append(merged, Head(rest)), Tail(rest), FALSE)

\* sanitizeMessageStructure step 3: the filter predicate.
hasContent(message) ==
    IF message.content.kind = "string" THEN message.content.str # ""
    ELSE IF message.content.kind = "array" THEN message.content.blocks # <<>>
    ELSE TRUE

MAX_ITERATIONS == 10

\* transform.ts sanitizeMessageStructure(): the while loop, from iteration
\* `iterations + 1` on.  Returns the messages, the flag `changed`, whether
\* mergeMessages threw, and the number of iterations run.
RECURSIVE structureLoop(_, _)
structureLoop(current, iterations) ==
    IF iterations >= MAX_ITERATIONS
       THEN [messages |-> current, changed |-> FALSE, threw |-> FALSE,
             iterations |-> iterations]
    ELSE LET sliced == dropLeadingNonUser(current)
             m == mergeSameRole(<<>>, sliced, FALSE)
             nonEmpty == SelectSeq(m.messages, hasContent)
             stepChanged == \/ Len(sliced) # Len(current)
                            \/ Len(m.messages) # Len(sliced)
                            \/ Len(nonEmpty) # Len(m.messages)
         IN  IF m.threw
                THEN [messages |-> current, changed |-> FALSE, threw |-> TRUE,
                      iterations |-> iterations + 1]
             ELSE IF ~stepChanged
                THEN [messages |-> nonEmpty, changed |-> FALSE, threw |-> FALSE,
                      iterations |-> iterations + 1]
             ELSE [structureLoop(nonEmpty, iterations + 1) EXCEPT !.changed = TRUE]

\* A structure repair whose loop is capped at two iterations.
sanitizeMessageStructure_TwoIterations(messages) ==
    structureLoop(messages, MAX_ITERATIONS - 2)

\* A structure repair that stops after its first iteration.
sanitizeMessageStructure_OneIteration(messages) ==
    structureLoop(messages, MAX_ITERATIONS - 1)

sanitizeMessageStructure(messages) == structureLoop(messages, 0)

\* transform.ts convertToolResultToText().
RECURSIVE joinTexts(_)
joinTexts(blocks) ==
    IF blocks = <<>> THEN ""
    ELSE IF Head(blocks).type = "text" /\ TypeOf(Head(blocks).text) = "string"
       THEN "\n" \o Head(blocks).text \o joinTexts(Tail(blocks))
       ELSE joinTexts(Tail(blocks))

\* A conversion that drops the tool result's own text.
convertToolResultToText_Bare(block) == TextBlock("[previous tool result]")

convertToolResultToText(block) ==
    TextBlock("[previous tool result]" \o
        (IF IsNonEmptyString(block.content) THEN "\n" \o block.content
         ELSE IF block.content = JsArray THEN joinTexts(block.nested)
         ELSE ""))

\* transform.ts removeOrphanedToolResults(): prevToolUseIds of message i.
prevToolUseIds(messages, i) ==
    IF i > 1 /\ messages[i - 1].role = "assistant"
            /\ messages[i - 1].content.kind = "array"
       THEN LET prev == messages[i - 1].content.blocks
            IN  {prev[j].id : j \in {k \in 1..Len(prev) :
                                        /\ prev[k].type = "tool_use"
                                        /\ TypeOf(prev[k].id) = "string"}}
       ELSE {}

\* transform.ts removeOrphanedToolResults(): isOrphaned.
isOrphaned(messages, i, block) ==
    \/ i = 1
    \/ messages[i - 1].role # "assistant"
    \/ block.tool_use_id \in {Absent, "", JsNull}
    \/ block.tool_use_id \notin prevToolUseIds(messages, i)

\* A pass that leaves every tool_result in place.
removeOrphanedToolResults_None(messages) == messages

\* transform.ts removeOrphanedToolResults().
removeOrphanedToolResults(messages) ==
    [i \in 1..Len(messages) |->
        IF messages[i].role = "user" /\ messages[i].content.kind = "array"
           THEN [messages[i] EXCEPT !.content.blocks =
                    [j \in 1..Len(messages[i].content.blocks) |->
                        LET block == messages[i].content.blocks[j]
                        IN  IF block.type = "tool_result"
                               /\ isOrphaned(messages, i, block)
                               THEN convertToolResultToText(block)
                               ELSE block]]
           ELSE messages[i]]

\* A request body: not JSON, JSON without a messages array, or JSON with one.
Body(kind, messages) == [kind |-> kind, messages |-> messages]

\* transform.ts removeOrphanedToolResults(): the flag wasModified.
orphansModified(messages) ==
    \E i \in 1..Len(messages) :
        /\ messages[i].role = "user"
        /\ messages[i].content.kind = "array"
        /\ \E j \in 1..Len(messages[i].content.blocks) :
              /\ messages[i].content.blocks[j].type = "tool_result"
              /\ isOrphaned(messages, i, messages[i].content.blocks[j])

\* A sanitizer that serialises the parsed body whatever happened to it.
reserialized_Always(sanitized, structureChanged, orphansChanged) == TRUE

\* transform.ts sanitizeContentBlocksWithStore(), lines 266-275: whether
\* JSON.stringify(parsed) is returned rather than requestBody.
reserialized(sanitized, structureChanged, orphansChanged) ==
    sanitized \/ structureChanged \/ orphansChanged

\* transform.ts sanitizeContentBlocksWithStore(): the messages of the body
\* it returns, whether the body was re-serialised, whether an exception was
\* caught, the iterations of the structure loop, and the messages as they
\* were between the structure repair and the orphan repair.
sanitizeContentBlocksWithStore(body, recorded) ==
    IF body.kind # "messages"
       THEN [messages |-> body.messages, rewritten |-> FALSE, threw |-> FALSE,
             iterations |-> 0, structured |-> body.messages]
    ELSE LET newMessages == [i \in 1..Len(body.messages) |->
                                sanitizeMessageWithStore(body.messages[i], recorded)]
             sanitized == \E i \in 1..Len(body.messages) :
                              newMessages[i] # body.messages[i]
             structure == sanitizeMessageStructure(newMessages)
             validated == removeOrphanedToolResults(structure.messages)
         IN  IF structure.threw
                THEN [messages |-> body.messages, rewritten |-> FALSE,
                      threw |-> TRUE, iterations |-> structure.iterations,
                      structured |-> body.messages]
                ELSE [messages |-> validated,
                      rewritten |-> reserialized(sanitized, structure.changed,
                                                 orphansModified(structure.messages)),
                      threw |-> FALSE, iterations |-> structure.iterations,
                      structured |-> structure.messages]

\* The number of messages of a request.
MaxMsgs == 3

\* The signatures thinking blocks carry: "s1" and "s2" are signatures
\* anthropic issued, the others are absent, empty or not a string.
BlockSignatures == {Absent, "", "s1", "s2", JsNumber}

\* The shapes of a thinking block.
ThinkingShapes ==
    {Thinking(sg, th, ct, cc) :
        sg \in BlockSignatures,
        th \in {Absent, "thought", "<{content}>", JsNull},
        ct \in {Absent, "reasoning", "<{text}>"},
        cc \in {Absent, "<{ephemeral}>"}}

\* A thinking block anthropic returned, and one transformThinkingBlocks made
\* from a z.ai response.
AnthropicThinking == Thinking("s1", "thought", Absent, Absent)
GlmThinking == Thinking(Absent, Absent, "reasoning", Absent)

\* The contents of the messages whose structure is repaired.
StructureContents ==
    {StrContent(""), StrContent("hi"), ArrContent(<<>>),
     ArrContent(<<TextBlock("t")>>),
     ArrContent(<<ToolUse("id1")>>),
     ArrContent(<<ToolResult("id1", "result")>>),
     ArrContent(<<AnthropicThinking>>),
     ArrContent(<<GlmThinking>>),
     OtherContent}

StructureMessages ==
    {Message(r, c) : r \in {"user", "assistant"}, c \in StructureContents}

\* Requests of up to MaxMsgs messages.
StructureRequests ==
    UNION {[1..n -> StructureMessages] : n \in 0..MaxMsgs}

\* Requests that carry one thinking block of any shape, at the top level of
\* a user or assistant message or nested in a tool_result.
ShapeRequests ==
    UNION {{<<Message("user", ArrContent(<<b>>))>>,
            <<Message("assistant", ArrContent(<<b>>))>>,
            <<Message("user", StrContent("hi")),
              Message("assistant", ArrContent(<<TextBlock("t"), b>>))>>,
            <<Message("user", ArrContent(<<ToolResultOf("id1", <<b>>)>>))>>,
            <<Message("user", StrContent("hi")),
              Message("assistant", ArrContent(<<ToolUse("id1")>>)),
              Message("user", ArrContent(<<ToolResultOf("id1", <<TextBlock("t"), b>>)>>))>>}
           : b \in ThinkingShapes}

\* The tool_result blocks of a request: with and without tool_use_id, with a
\* string or an array of blocks as content.
ToolResults ==
    {ToolResult(id, c) : id \in {Absent, "", "id1", "id2"},
                         c \in {Absent, "", "result"}}
      \cup {ToolResultOf(id, n) :
               id \in {Absent, "", "id1", "id2"},
               n \in {<<>>, <<TextBlock("t1"), GlmThinking, TextBlock("t2")>>}}

\* Requests that carry one tool_result, after an assistant message with or
\* without a tool_use, after a user message, or first.
ToolRequests ==
    UNION {{<<Message("user", ArrContent(<<tr>>))>>,
            <<Message("user", StrContent("hi")),
              Message("assistant", ArrContent(<<ToolUse("id1")>>)),
              Message("user", ArrContent(<<tr>>))>>,
            <<Message("user", StrContent("hi")),
              Message("assistant", ArrContent(<<TextBlock("t"), ToolUse("id1")>>)),
              Message("user", ArrContent(<<ToolResult("id1", "result"), tr>>))>>,
            <<Message("user", StrContent("hi")),
              Message("assistant", StrContent("plain")),
              Message("user", ArrContent(<<tr>>))>>,
            <<Message("user", StrContent("hi")),
              Message("user", ArrContent(<<tr>>))>>,
            <<Message("assistant", ArrContent(<<ToolUse("id1")>>)),
              Message("user", ArrContent(<<tr>>))>>}
           : tr \in ToolResults}

\* The bodies a client posts.
RequestBodies ==
    {Body("notJson", <<>>), Body("noMessages", <<>>)}
        \cup {Body("messages", m) :
                 m \in StructureRequests \cup ShapeRequests \cup ToolRequests}

\* The stores a request can meet: the signatures recorded so far, least
\* recently used first.
RecordedStores == {<<>>, <<"s1">>, <<"s2">>, <<"s1", "s2">>}

SanFrame == UNCHANGED <<lifeVars, hdrVars, oriVars, globVars, routeVars, reqVars, respVars, argVars, bufVars>>

NoOutput ==
    [messages |-> <<>>, rewritten |-> FALSE, threw |-> FALSE, iterations |-> 0,
     structured |-> <<>>]

\* No request in progress.
SanIdle ==
    /\ sanPc = "idle"
    /\ reqBody = Body("notJson", <<>>)
    /\ sanOut = NoOutput
    /\ sanAgain = NoOutput

\* A store that already holds some signatures, and no request yet.
SanInit ==
    /\ SanIdle
    /\ \E order \in RecordedStores :
          /\ cache = Range(order)
          /\ accessOrder = order
          /\ mapCache = order
          /\ accessLog = order
    /\ lastHas = <<FALSE, FALSE>>

\* store.has() for each signature of `lookups`, in order.
RECURSIVE hasEach(_, _)
hasEach(st, lookups) ==
    IF lookups = <<>> THEN st
    ELSE hasEach(SignatureStore_has(st, Head(lookups)).store, Tail(lookups))

RECURSIVE mapHasEach(_, _)
mapHasEach(m, lookups) ==
    IF lookups = <<>> THEN m
    ELSE mapHasEach(MapStore_has(m, Head(lookups)).store, Tail(lookups))

\* handleRequest, lines 91-182: a JSON request routed to anthropic was read.
SanReceive ==
    /\ sanPc = "idle"
    /\ \E body \in RequestBodies : reqBody' = body
    /\ sanPc' = "request"
    /\ UNCHANGED <<sanOut, sanAgain, storeVars>>
    /\ SanFrame

\* The store after the store.has() calls of one sanitizer run.
HasLookups(lookups) ==
    LET st == hasEach([cache |-> cache, accessOrder |-> accessOrder], lookups)
    IN  /\ cache' = st.cache
        /\ accessOrder' = st.accessOrder
        /\ mapCache' = mapHasEach(mapCache, lookups)
        /\ accessLog' = accessLog \o SelectSeq(lookups, LAMBDA x : x \in cache)
        /\ lastHas' = IF lookups = <<>> THEN lastHas
                      ELSE <<lookups[Len(lookups)] \in cache,
                             lookups[Len(lookups)] \in Range(mapCache)>>

\* handleRequest, lines 183-195: sanitizeContentBlocksWithStore(body, store).
Sanitize ==
    /\ sanPc = "request"
    /\ sanOut' = sanitizeContentBlocksWithStore(reqBody, cache)
    /\ HasLookups(IF reqBody.kind = "messages"
                     THEN messagesLookups(reqBody.messages) ELSE <<>>)
    /\ sanPc' = "done"
    /\ UNCHANGED <<reqBody, sanAgain>>
    /\ SanFrame

\* The body sanitizeContentBlocksWithStore returned is sanitized once more,
\* with the same store.
SanitizeAgain ==
    /\ sanPc = "done"
    /\ sanAgain' = sanitizeContentBlocksWithStore(Body(reqBody.kind, sanOut.messages),
                                                  cache)
    /\ HasLookups(IF reqBody.kind = "messages"
                     THEN messagesLookups(sanOut.messages) ELSE <<>>)
    /\ sanPc' = "again"
    /\ UNCHANGED <<reqBody, sanOut>>
    /\ SanFrame

SanNext == SanReceive \/ Sanitize \/ SanitizeAgain

(***************************************************************************)
(* ---------------------- RESPONSES AND THEIR ECHO ----------------------- *)
(***************************************************************************)

\* The number of thinking blocks a conversation collects.
MaxHistory == 2

\* The thinking blocks anthropic returns: signed by anthropic.
AnthropicBlocks ==
    {Thinking(sg, th, ct, Absent) :
        sg \in {"s1", "s2"}, th \in {Absent, "thought"}, ct \in {Absent, "reasoning"}}

\* The thinking blocks z.ai returns: content as a string, thinking as a string
\* or an object, with or without a signature of its own.
ZaiBlocks ==
    {Thinking(sg, th, ct, Absent) :
        sg \in {Absent, "", "glm-signature"},
        th \in {Absent, "thought", "<{content}>", "<{other}>"},
        ct \in {Absent, "reasoning"}}

\* The content types of an upstream response: a JSON body or an event stream.
ContentTypes == {"application/json", "text/event-stream"}

\* contentType.includes("application/json"), for the content types of the
\* model; of an absent header it is not asked.
includesApplicationJson(contentType) ==
    CASE contentType = "application/json" -> TRUE
      [] contentType = "application/json; charset=utf-8" -> TRUE
      [] OTHER -> FALSE

\* A decision that transforms the JSON responses of every upstream.
shouldTransformResponse_AnyUpstream(contentType, upstream) ==
    contentType # Absent /\ includesApplicationJson(contentType)

\* transform.ts shouldTransformResponse().
shouldTransformResponse(contentType, upstream) ==
    /\ upstream = "zai"
    /\ contentType # Absent
    /\ includesApplicationJson(contentType)

\* server.ts handleRequest, line 225: needsSignatureExtraction.
needsSignatureExtraction(contentType, upstream) ==
    /\ upstream = "anthropic"
    /\ contentType # Absent
    /\ includesApplicationJson(contentType)

\* transform.ts transformThinkingBlocks(): the block built for a thinking block.
transformThinkingBlock(block) ==
    LET content ==
            IF TypeOf(block.content) = "string" THEN block.content
            ELSE IF TypeOf(block.thinking) = "string" THEN block.thinking
            ELSE IF TypeOf(block.thinking) = "object" /\ block.thinking # JsNull THEN
                IF TypeOf(ObjField(block.thinking, "content")) = "string"
                   THEN ObjField(block.thinking, "content")
                ELSE IF TypeOf(ObjField(block.thinking, "thinking")) = "string"
                   THEN ObjField(block.thinking, "thinking")
                ELSE IF TypeOf(ObjField(block.thinking, "text")) = "string"
                   THEN ObjField(block.thinking, "text")
                ELSE JSONstringify(block.thinking)
            ELSE ""
    IN  [NoBlock EXCEPT !.type = "thinking", !.content = content]

\* A transformation that leaves the signature on the block it builds.
transformThinkingBlocks_KeepSignature(block) ==
    IF block.type = "thinking"
       THEN [transformThinkingBlock(block) EXCEPT !.signature = block.signature]
       ELSE block

\* transform.ts transformThinkingBlocks(), for one block of parsed.content.
transformThinkingBlocks(block) ==
    IF block.type = "thinking" THEN transformThinkingBlock(block) ELSE block

\* transform.ts extractAndRecordSignatures(): whether the block's signature
\* is passed to store.add().
recordsSignature(block) ==
    block.type = "thinking" /\ IsNonEmptyString(block.signature)

OriFrame == UNCHANGED <<lifeVars, hdrVars, sanVars, globVars, routeVars, reqVars, respVars, argVars, bufVars>>

\* No conversation yet.
OriIdle ==
    /\ clientBlocks = <<>>
    /\ echoOut = <<>>

Received(block, origin, relay) == [block |-> block, origin |-> origin, relay |-> relay]

\* handleRequest, lines 215-300: a response of anthropic with a thinking
\* block reaches the client; a JSON body is buffered and its signature
\* recorded, anything else is piped through.
AnthropicResponse ==
    /\ Len(clientBlocks) < MaxHistory
    /\ \E block \in AnthropicBlocks, contentType \in ContentTypes :
          IF needsSignatureExtraction(contentType, "anthropic")
             THEN /\ clientBlocks' = Append(clientBlocks, Received(block, "anthropic", "buffered"))
                  /\ LET sg == IF recordsSignature(block) THEN block.signature ELSE ""
                         st == SignatureStore_add([cache |-> cache, accessOrder |-> accessOrder], sg)
                     IN  /\ cache' = st.cache
                         /\ accessOrder' = st.accessOrder
                         /\ mapCache' = MapStore_add(mapCache, sg)
                         /\ accessLog' = IF sg # "" THEN Append(accessLog, sg) ELSE accessLog
                  /\ UNCHANGED lastHas
             ELSE /\ clientBlocks' = Append(clientBlocks, Received(block, "anthropic", "streamed"))
                  /\ UNCHANGED storeVars
    /\ UNCHANGED echoOut
    /\ OriFrame

\* handleRequest, lines 215-300: a response of z.ai with a thinking block
\* reaches the client; a JSON body is buffered and transformed, anything else
\* is piped through.
ZaiResponse ==
    /\ Len(clientBlocks) < MaxHistory
    /\ \E block \in ZaiBlocks, contentType \in ContentTypes :
          clientBlocks' =
              Append(clientBlocks,
                     IF shouldTransformResponse(contentType, "zai")
                        THEN Received(transformThinkingBlocks(block), "zai", "buffered")
                        ELSE Received(block, "zai", "streamed"))
    /\ UNCHANGED <<echoOut, storeVars>>
    /\ OriFrame

\* The request with which the client continues the conversation: the blocks
\* it received are the assistant turn.
EchoRequest ==
    Body("messages",
         <<Message("user", StrContent("hi")),
           Message("assistant",
                   ArrContent([i \in 1..Len(clientBlocks) |-> clientBlocks[i].block])),
           Message("user", StrContent("go on"))>>)

\* handleRequest, lines 183-195: the client sends the conversation to
\* anthropic and the proxy sanitizes it; once for each block it received.
ClientEcho ==
    /\ clientBlocks # <<>>
    /\ Len(echoOut) < Len(clientBlocks)
    /\ LET out == sanitizeContentBlocksWithStore(EchoRequest, cache)
           lookups == messagesLookups(EchoRequest.messages)
           st == hasEach([cache |-> cache, accessOrder |-> accessOrder], lookups)
       IN  /\ echoOut' = [i \in 1..Len(clientBlocks) |->
                            [origin |-> clientBlocks[i].origin,
                             relay |-> clientBlocks[i].relay,
                             sent |-> clientBlocks[i].block,
                             forwarded |-> out.messages[2].content.blocks[i]]]
           /\ cache' = st.cache
           /\ accessOrder' = st.accessOrder
           /\ mapCache' = mapHasEach(mapCache, lookups)
           /\ accessLog' = accessLog \o SelectSeq(lookups, LAMBDA x : x \in cache)
           /\ lastHas' = IF lookups = <<>> THEN lastHas
                         ELSE <<lookups[Len(lookups)] \in cache,
                                lookups[Len(lookups)] \in Range(mapCache)>>
    /\ UNCHANGED clientBlocks
    /\ OriFrame

OriNext == AnthropicResponse \/ ZaiResponse \/ ClientEcho

(***************************************************************************)
(* BUFFERED RESPONSES (transform.ts transformThinkingBlocks and            *)
(* extractAndRecordSignatures on a whole response body)                    *)
(***************************************************************************)

\* Most content blocks of a response explored.
MaxBlocks == 3

\* A response body: text that is not JSON, or a JSON object with a top-level
\* id and a content that is an array of blocks, a string, or something else.
ResponseBody(kind, blocks, str, id) ==
    [kind |-> kind, blocks |-> blocks, str |-> str, id |-> id]

\* transformThinkingBlocks(), lines 689-700: the two replace() calls and the
\* trim() on a content string.
stripThinkingTags(str) ==
    CASE str = "<thinking>plan</thinking>answer" -> "answer"
      [] str = "answer <thinking type=\"x\">unclosed" -> "answer"
      [] str = " answer " -> "answer"
      [] OTHER -> str

\* A transformation that keeps the signature of each thinking block.
transformResponseBlock_KeepSignature(block) ==
    IF block.type = "thinking"
       THEN [transformThinkingBlock(block) EXCEPT !.signature = block.signature]
       ELSE block

\* transformThinkingBlocks(), lines 645-679: the loop body.
transformResponseBlock(block) == transformThinkingBlocks(block)

\* transform.ts transformThinkingBlocks(response): the body returned and
\* whether it is JSON.stringify(parsed) rather than response.
transformResponse(body) ==
    IF body.kind = "array"
       THEN IF \E i \in 1..Len(body.blocks) : body.blocks[i].type = "thinking"
               THEN [body |-> [body EXCEPT !.blocks =
                                  [i \in 1..Len(body.blocks) |->
                                      transformResponseBlock(body.blocks[i])]],
                     rewritten |-> TRUE]
               ELSE [body |-> body, rewritten |-> FALSE]
    ELSE IF body.kind = "string"
       THEN IF stripThinkingTags(body.str) # body.str
               THEN [body |-> [body EXCEPT !.str = stripThinkingTags(body.str)],
                     rewritten |-> TRUE]
               ELSE [body |-> body, rewritten |-> FALSE]
    ELSE [body |-> body, rewritten |-> FALSE]

\* extractAndRecordSignatures(): the arguments of its store.add() calls, in
\* order.
recordedSignatures(body) ==
    IF body.kind = "array"
       THEN LET signed == SelectSeq(body.blocks, recordsSignature)
            IN  [i \in 1..Len(signed) |-> signed[i].signature]
       ELSE <<>>

\* An extraction that records only the first signature of a response.
addEach_FirstOnly(st, signatures) ==
    IF signatures = <<>> THEN st ELSE SignatureStore_add(st, Head(signatures))

\* store.add() for each signature, in order.
RECURSIVE addEach(_, _)
addEach(st, signatures) ==
    IF signatures = <<>> THEN st
    ELSE addEach(SignatureStore_add(st, Head(signatures)), Tail(signatures))

RECURSIVE mapAddEach(_, _)
mapAddEach(m, signatures) ==
    IF signatures = <<>> THEN m
    ELSE mapAddEach(MapStore_add(m, Head(signatures)), Tail(signatures))

\* transform.ts extractAndRecordSignatures(responseBody, store): the body
\* returned and the store afterwards.
extractAndRecordSignatures(body, st) ==
    [body |-> body, store |-> addEach(st, recordedSignatures(body))]

\* The thinking blocks of responses: every combination of a signature, a
\* thinking sub-field and a content of the kinds an upstream may send.
ResponseThinking ==
    {Thinking(sg, th, ct, Absent) :
        sg \in {Absent, "", "s3", JsNumber},
        th \in {Absent, "thought", "<{content}>", "<{thinking}>", "<{text}>",
                "<{content,thinking,text}>", "<{thinking,text}>", "<{other}>",
                JsNull, JsArray},
        ct \in {Absent, "reasoning", JsNumber}}

\* The blocks of responses with several blocks.
SeveralBlocks ==
    {TextBlock("answer"),
     Thinking("s1", Absent, "reasoning", Absent),
     Thinking("s2", "thought", Absent, Absent),
     Thinking("s3", "thought", "reasoning", Absent),
     Thinking("s4", Absent, "reasoning", Absent),
     Thinking("", "<{text}>", Absent, Absent),
     Thinking(Absent, Absent, Absent, Absent)}

ResponseContents ==
    {<<>>} \cup {<<b>> : b \in ResponseThinking \cup {ToolUse("id1")}}
           \cup UNION {[1..k -> SeveralBlocks] : k \in 1..MaxBlocks}

\* The bodies of buffered responses.
ResponseBodies ==
    {ResponseBody("notJson", <<>>, "", Absent)}
        \cup {ResponseBody("array", blocks, "", id) :
                 blocks \in ResponseContents, id \in {Absent, "msg_1"}}
        \cup {ResponseBody("string", <<>>, str, "msg_1") :
                 str \in {"answer", "<thinking>plan</thinking>answer",
                          "answer <thinking type=\"x\">unclosed", " answer "}}
        \cup {ResponseBody("other", <<>>, "", "msg_1")}

RespFrame ==
    UNCHANGED <<lifeVars, hdrVars, sanVars, oriVars, globVars, routeVars, reqVars, argVars, bufVars>>

NoResponse == ResponseBody("notJson", <<>>, "", Absent)

\* No response buffered.
RespIdle ==
    /\ respPc = "idle"
    /\ respUpstream = "anthropic"
    /\ respType = Absent
    /\ respBody = NoResponse
    /\ respOut = [body |-> NoResponse, rewritten |-> FALSE]

\* A store that already holds some signatures.
StoreRecorded ==
    /\ \E order \in RecordedStores :
          /\ cache = Range(order)
          /\ accessOrder = order
          /\ mapCache = order
          /\ accessLog = order
    /\ lastHas = <<FALSE, FALSE>>

\* handleRequest, lines 237-250: the body of a JSON response of either
\* upstream has been buffered.
RespReceive ==
    /\ respPc = "idle"
    /\ respBody' \in ResponseBodies
    /\ respUpstream' \in {"anthropic", "zai"}
    /\ respType' = "application/json"
    /\ respPc' = "received"
    /\ UNCHANGED <<respOut, storeVars>>
    /\ RespFrame

\* handleRequest, lines 252-281: the signatures of a response of anthropic
\* are recorded, a response of z.ai is transformed, and the result is
\* written to the client.
ProcessResponse ==
    /\ respPc = "received"
    /\ IF respUpstream = "anthropic"
          THEN LET done == extractAndRecordSignatures(
                               respBody, [cache |-> cache, accessOrder |-> accessOrder])
               IN  /\ respOut' = [body |-> done.body, rewritten |-> FALSE]
                   /\ cache' = done.store.cache
                   /\ accessOrder' = done.store.accessOrder
                   /\ mapCache' = mapAddEach(mapCache, recordedSignatures(respBody))
                   /\ accessLog' = accessLog \o recordedSignatures(respBody)
                   /\ UNCHANGED lastHas
          ELSE /\ respOut' = transformResponse(respBody)
               /\ UNCHANGED storeVars
    /\ respPc' = "processed"
    /\ UNCHANGED <<respBody, respUpstream, respType>>
    /\ RespFrame

RespNext == RespReceive \/ ProcessResponse

\* The content-type headers of upstream responses: none, JSON with and
\* without a parameter, an event stream, plain text.
ResponseTypes ==
    {Absent, "application/json", "application/json; charset=utf-8",
     "text/event-stream", "text/plain"}

\* handleRequest, lines 213-230: the response callback runs for a response
\* of some content type from the upstream the request was routed to.
RelayReceive ==
    /\ respPc = "idle"
    /\ respBody' \in ResponseBodies
    /\ respUpstream' \in {"anthropic", "zai"}
    /\ respType' \in ResponseTypes
    /\ respPc' = "arrived"
    /\ UNCHANGED <<respOut, storeVars>>
    /\ RespFrame

\* The body of the 502 answer to a response beyond MAX_TRANSFORM_SIZE.
TransformError == ResponseBody("transform_error", <<>>, "", Absent)

\* handleRequest, lines 232-306: the response is buffered and, at its end,
\* its signatures are recorded (anthropic) or it is transformed (z.ai) and
\* written with a new content-length, unless it outgrows
\* MAX_TRANSFORM_SIZE; or it is piped to the client as it comes.
RelayResponse ==
    /\ respPc = "arrived"
    /\ LET needsTransform == shouldTransformResponse(respType, respUpstream)
           isAnthropic == respUpstream = "anthropic"
           needsExtraction == needsSignatureExtraction(respType, respUpstream)
       IN  IF needsTransform \/ needsExtraction
              THEN \E tooLarge \in BOOLEAN :
                     IF tooLarge
                        THEN /\ respOut' = [body |-> TransformError, rewritten |-> TRUE,
                                            relay |-> "rejected"]
                             /\ UNCHANGED storeVars
                        ELSE LET done == extractAndRecordSignatures(
                                             respBody,
                                             [cache |-> cache, accessOrder |-> accessOrder])
                                 extracted == IF isAnthropic THEN done.body ELSE respBody
                                 processed == IF needsTransform
                                                 THEN transformResponse(extracted)
                                                 ELSE [body |-> extracted, rewritten |-> FALSE]
                             IN  /\ respOut' = [body |-> processed.body,
                                                rewritten |-> processed.rewritten,
                                                relay |-> "buffered"]
                                 /\ IF isAnthropic
                                       THEN /\ cache' = done.store.cache
                                            /\ accessOrder' = done.store.accessOrder
                                            /\ mapCache' = mapAddEach(mapCache,
                                                               recordedSignatures(respBody))
                                            /\ accessLog' = accessLog
                                                               \o recordedSignatures(respBody)
                                            /\ UNCHANGED lastHas
                                       ELSE UNCHANGED storeVars
              ELSE /\ respOut' = [body |-> respBody, rewritten |-> FALSE,
                                  relay |-> "streamed"]
                   /\ UNCHANGED storeVars
    /\ respPc' = "relayed"
    /\ UNCHANGED <<respBody, respUpstream, respType>>
    /\ RespFrame

RelayNext == RelayReceive \/ RelayResponse

(***************************************************************************)
(* MODEL ROUTER (the router module: globToRegExp, selectRoute)             *)
(* Strings that are matched are sequences of one-character strings.        *)
(***************************************************************************)

\* Longest pattern, longest matched string and longest rule list explored.
MaxPattern == 3
MaxSubject == 3
MaxRules == 2

\* Characters of patterns: a plain character, the wildcard, and two
\* characters that are operators of regular expressions.
PatternChars == {"a", "*", "?", "."}

\* Characters of model names; "\n" is a line terminator.
SubjectChars == {"a", "?", ".", "\n"}

StringsOver(chars, n) == UNION {[1..k -> chars] : k \in 0..n}

\* globToRegExp(): the character class /[.+^${}()|[\]\\]/ of the replace.
EscapedChars == {".", "+", "^", "$", "{", "}", "(", ")", "|", "[", "]", "\\"}

\* pattern.replace(/[.+^${}()|[\]\\]/g, "\\$&"): a backslash before every
\* character of the class.
RECURSIVE escapeChars(_)
escapeChars(str) ==
    IF str = <<>> THEN <<>>
    ELSE (IF str[1] \in EscapedChars THEN <<"\\", str[1]>> ELSE <<str[1]>>)
             \o escapeChars(Tail(str))

\* escaped.replace(/\*/g, ".*")
RECURSIVE replaceStars(_)
replaceStars(str) ==
    IF str = <<>> THEN <<>>
    ELSE (IF str[1] = "*" THEN <<".", "*">> ELSE <<str[1]>>)
             \o replaceStars(Tail(str))

\* globToRegExp(): the source text regexStr.
regexSource(p) == <<"^">> \o replaceStars(escapeChars(p)) \o <<"$">>

Term(atom, char, quantifier, lazy) ==
    [atom |-> atom, char |-> char, quantifier |-> quantifier, lazy |-> lazy]

SyntaxError == [threw |-> TRUE, terms |-> <<>>]

\* new RegExp(source) for the text between "^" and "$": the terms of the
\* expression, each an atom (a character, or "." for any character but a
\* line terminator) with its quantifier; "Nothing to repeat" is a SyntaxError.
RECURSIVE parseTerms(_, _)
parseTerms(src, acc) ==
    IF src = <<>> THEN [threw |-> FALSE, terms |-> acc]
    ELSE IF src[1] = "\\"
        THEN parseTerms(SubSeq(src, 3, Len(src)),
                        Append(acc, Term("char", src[2], "one", FALSE)))
    ELSE IF src[1] = "."
        THEN parseTerms(Tail(src), Append(acc, Term("any", "", "one", FALSE)))
    ELSE IF src[1] \in {"*", "?"}
        THEN IF acc = <<>> THEN SyntaxError
             ELSE LET last == acc[Len(acc)]
                      front == SubSeq(acc, 1, Len(acc) - 1)
                  IN  IF last.quantifier = "one"
                         THEN parseTerms(Tail(src),
                                  Append(front, [last EXCEPT !.quantifier =
                                      IF src[1] = "*" THEN "star" ELSE "optional"]))
                      ELSE IF src[1] = "?" /\ ~last.lazy
                         THEN parseTerms(Tail(src),
                                  Append(front, [last EXCEPT !.lazy = TRUE]))
                      ELSE SyntaxError
    ELSE parseTerms(Tail(src), Append(acc, Term("char", src[1], "one", FALSE)))

\* The router's globToRegExp(pattern).
globToRegExp(p) ==
    LET src == regexSource(p)
    IN  parseTerms(SubSeq(src, 2, Len(src) - 1), <<>>)

LineTerminators == {"\n"}

atomAccepts(term, c) ==
    IF term.atom = "any" THEN c \notin LineTerminators ELSE c = term.char

\* RegExp.prototype.test for an expression anchored at both ends: whether
\* the terms consume exactly the string str.
RECURSIVE termsMatch(_, _)
termsMatch(terms, str) ==
    IF terms = <<>> THEN str = <<>>
    ELSE LET t == terms[1]
             step == str # <<>> /\ atomAccepts(t, str[1])
         IN  CASE t.quantifier = "one" ->
                      step /\ termsMatch(Tail(terms), Tail(str))
               [] t.quantifier = "optional" ->
                      \/ termsMatch(Tail(terms), str)
                      \/ step /\ termsMatch(Tail(terms), Tail(str))
               [] t.quantifier = "star" ->
                      \/ termsMatch(Tail(terms), str)
                      \/ step /\ termsMatch(terms, Tail(str))

\* globToRegExp(rule.match).test(modelToMatch): "threw" when the pattern
\* does not compile.
globTest(p, str) ==
    LET re == globToRegExp(p)
    IN  IF re.threw THEN "threw"
        ELSE IF termsMatch(re.terms, str) THEN "match" ELSE "nomatch"

GlobFrame == UNCHANGED <<lifeVars, storeVars, hdrVars, sanVars, oriVars, routeVars, reqVars, respVars, argVars, bufVars>>

NoRegex == [threw |-> FALSE, terms |-> <<>>]

\* No pattern compiled yet.
GlobIdle ==
    /\ globPc = "idle"
    /\ pattern = <<>>
    /\ regex = NoRegex
    /\ subject = <<>>
    /\ matched = "none"

\* globToRegExp(rule.match) for the pattern of a rule.
GlobCompile ==
    /\ globPc = "idle"
    /\ \E p \in StringsOver(PatternChars, MaxPattern) :
          /\ pattern' = p
          /\ regex' = globToRegExp(p)
    /\ globPc' = "compiled"
    /\ UNCHANGED <<subject, matched>>
    /\ GlobFrame

\* .test(modelToMatch) on the compiled expression.
GlobTest ==
    /\ globPc = "compiled"
    /\ \E str \in StringsOver(SubjectChars, MaxSubject) :
          /\ subject' = str
          /\ matched' = globTest(pattern, str)
    /\ globPc' = "tested"
    /\ UNCHANGED <<pattern, regex>>
    /\ GlobFrame

GlobNext == GlobCompile \/ GlobTest

\* The router's VALID_UPSTREAMS.
VALID_UPSTREAMS == {"anthropic", "zai"}

isValidUpstream(name) == name \in VALID_UPSTREAMS

\* config.upstream: the url of each upstream and the key of z.ai.
AnthropicUrl == "https://api.anthropic.com"
ZaiUrl == "https://api.z.ai/api/anthropic"
ZaiApiKey == "zai-key"

\* A Route; a field the object literal does not have is Absent.
RouteOf(name, rewrite) ==
    IF name = "anthropic"
       THEN [name |-> "anthropic", url |-> AnthropicUrl, apiKey |-> Absent,
             model |-> rewrite]
       ELSE [name |-> "zai", url |-> ZaiUrl, apiKey |-> ZaiApiKey,
             model |-> rewrite]

RouteThrew == [name |-> "threw", url |-> Absent, apiKey |-> Absent, model |-> Absent]

\* selectRoute(): the loop over config.routing.rules from rule i on, then the
\* fallback to config.routing.default.
RECURSIVE selectFrom(_, _, _)
selectFrom(i, modelToMatch, cfg) ==
    IF i > Len(cfg.rules)
       THEN IF ~isValidUpstream(cfg.default) THEN RouteOf("anthropic", Absent)
            ELSE RouteOf(cfg.default, Absent)
    ELSE LET rule == cfg.rules[i]
         IN  IF ~isValidUpstream(rule.upstream)
                THEN selectFrom(i + 1, modelToMatch, cfg)
             ELSE LET test == globTest(rule.match, modelToMatch)
                  IN  IF test = "threw" THEN RouteThrew
                      ELSE IF test = "match" THEN RouteOf(rule.upstream, rule.model)
                      ELSE selectFrom(i + 1, modelToMatch, cfg)

\* The router's selectRoute(model, config).
selectRoute(m, cfg) ==
    selectFrom(1, IF m = Absent THEN <<>> ELSE m, cfg)

\* The patterns, upstream names and rewrites of the rules explored; the
\* loader accepts any string as a pattern, and selectRoute checks the
\* upstream names of the Config it is handed by itself.
RulePatterns == {<<"*">>, <<"a", "*">>, <<"a", "?">>, <<"a", ".">>, <<"?">>}
UpstreamNames == {"anthropic", "zai", "openai"}
Rewrites == {Absent, "glm-4.7"}

Rules ==
    [match : RulePatterns, upstream : UpstreamNames, model : Rewrites]

Configs ==
    [rules : UNION {[1..k -> Rules] : k \in 0..MaxRules},
     default : UpstreamNames]

\* The models of requests: none, or a name.
Models == {Absent, <<>>, <<"a">>, <<"a", "?">>, <<"a", ".">>, <<"a", "a">>}

RouteFrame == UNCHANGED <<lifeVars, storeVars, hdrVars, sanVars, oriVars, globVars, reqVars, respVars, argVars, bufVars>>

\* No request to route.
RouteIdle ==
    /\ routePc = "idle"
    /\ config = [rules |-> <<>>, default |-> "anthropic"]
    /\ model = Absent
    /\ selectedRoute = RouteOf("anthropic", Absent)

\* A request with some model arrives at a proxy with some configuration.
RouteRequest ==
    /\ routePc = "idle"
    /\ config' \in Configs
    /\ model' \in Models
    /\ routePc' = "ready"
    /\ UNCHANGED selectedRoute
    /\ RouteFrame

\* handleRequest calls selectRoute(model, config).
SelectRoute ==
    /\ routePc = "ready"
    /\ selectedRoute' = selectRoute(model, config)
    /\ routePc' = "routed"
    /\ UNCHANGED <<config, model>>
    /\ RouteFrame

RouteNext == RouteRequest \/ SelectRoute

(***************************************************************************)
(* REQUEST HANDLER (proxy/server.ts handleRequest): one request, its       *)
(* upstream request and its response                                       *)
(***************************************************************************)

\* Most chunks of a request body, and of a streamed response, explored.
MaxChunks == 3

\* server.ts MAX_BODY_SIZE.
MAX_BODY_SIZE == 10485760

\* The sizes of the chunks a client sends.
ChunkSizes == {1, 4194304, MAX_BODY_SIZE}

\* The status codes an upstream answers with.
UpstreamStatuses == {200, 529}

\* One write into the response body: what was written and whether the
\* headers were already sent when the handler came to write it.
Written(kind) == [kind |-> kind, headersWereSent |-> headersSent]

Envelopes == {"payload_too_large", "transform_error", "proxy_error", "gateway_timeout"}

\* A body check that lets every size through.
exceedsBodyLimit_Never(size) == FALSE

\* handleRequest, line 143: totalSize > MAX_BODY_SIZE.
exceedsBodyLimit(size) == size > MAX_BODY_SIZE

\* An error answer that calls res.writeHead whether or not the headers
\* were sent.
RespondError_Unguarded(status, kind) ==
    /\ headersSent' = TRUE
    /\ writeHeads' = writeHeads + 1
    /\ resStatus' = status
    /\ resBody' = IF resEnded THEN resBody ELSE Append(resBody, Written(kind))
    /\ resEnded' = TRUE
    /\ endCalls' = endCalls + 1

\* if (!res.headersSent) res.writeHead(status, ...); res.end(JSON.stringify(
\* {error: kind, ...})): end() writes its argument into the body unless the
\* response has been ended.
RespondError(status, kind) ==
    /\ headersSent' = TRUE
    /\ writeHeads' = IF headersSent THEN writeHeads ELSE writeHeads + 1
    /\ resStatus' = IF headersSent THEN resStatus ELSE status
    /\ resBody' = IF resEnded THEN resBody ELSE Append(resBody, Written(kind))
    /\ resEnded' = TRUE
    /\ endCalls' = endCalls + 1

ResUnchanged == UNCHANGED <<headersSent, writeHeads, resStatus, resBody, resEnded, endCalls>>

ReqOthers ==
    UNCHANGED <<lifeVars, hdrVars, sanVars, oriVars, globVars, routeVars, respVars, argVars>>

ReqFrame == ReqOthers /\ UNCHANGED <<storeVars, bufVars>>

\* No response is being buffered.
BufIdle == bufUpstream = "none"

\* The bodies an upstream sends in a buffered response: one with a signed
\* thinking block, one without, and one that is not JSON.
BufferedBodies ==
    {ResponseBody("array", <<Thinking("s3", "thought", Absent, Absent)>>, "", "msg_1"),
     ResponseBody("array", <<TextBlock("answer")>>, "", "msg_1"),
     ResponseBody("notJson", <<>>, "", Absent)}

\* handleRequest, lines 98-123: the handler has registered onAborted and
\* onError and nothing else has happened.
ReqIdle ==
    /\ rqPc = "start"
    /\ totalSize = 0
    /\ chunksRead = 0
    /\ isAborted = FALSE
    /\ proxyReq = "none"
    /\ listeners = {"aborted", "error"}
    /\ inboundFailed = FALSE
    /\ headersSent = FALSE
    /\ writeHeads = 0
    /\ resStatus = 0
    /\ resBody = <<>>
    /\ resEnded = FALSE
    /\ endCalls = 0
    /\ lastStep = "none"

\* handleRequest, lines 155-213 and 348-365: route, rewrite, sanitize, build
\* headers, create the upstream request, write the body; or the catch block
\* when one of those throws.
Dial(throws) ==
    IF throws
       THEN /\ rqPc' = "returned"
            /\ listeners' = {}
            /\ RespondError(502, "proxy_error")
            /\ UNCHANGED proxyReq
       ELSE /\ rqPc' = "dialing"
            /\ proxyReq' = "open"
            /\ UNCHANGED listeners
            /\ ResUnchanged

\* handleRequest, lines 128-135 and 159-161: a request without a body.
StartWithoutBody ==
    /\ rqPc = "start"
    /\ \E throws \in BOOLEAN : Dial(throws)
    /\ lastStep' = "start"
    /\ UNCHANGED <<totalSize, chunksRead, isAborted, inboundFailed>>
    /\ ReqFrame

\* handleRequest, lines 128-140: a request with a body enters the loop.
StartWithBody ==
    /\ rqPc = "start"
    /\ rqPc' = "receiving"
    /\ lastStep' = "start"
    /\ UNCHANGED <<totalSize, chunksRead, isAborted, proxyReq, listeners,
                   inboundFailed>>
    /\ ResUnchanged
    /\ ReqFrame

\* handleRequest, lines 140-151: one iteration of the loop over the chunks,
\* also over chunks that were received before the inbound stream failed.
ReceiveChunk ==
    /\ rqPc = "receiving"
    /\ chunksRead < MaxChunks
    /\ chunksRead' = chunksRead + 1
    /\ lastStep' = "chunk"
    /\ \E size \in ChunkSizes :
          IF isAborted
             THEN /\ rqPc' = "returned"
                  /\ UNCHANGED totalSize
                  /\ ResUnchanged
          ELSE /\ totalSize' = totalSize + size
               /\ IF exceedsBodyLimit(totalSize + size)
                     THEN /\ rqPc' = "returned"
                          /\ RespondError(413, "payload_too_large")
                     ELSE /\ rqPc' = "receiving"
                          /\ ResUnchanged
    /\ UNCHANGED <<isAborted, proxyReq, listeners, inboundFailed>>
    /\ ReqFrame

\* handleRequest, lines 152-213: the body is complete.
EndOfBody ==
    /\ rqPc = "receiving"
    /\ lastStep' = "end"
    /\ IF isAborted
          THEN /\ rqPc' = "returned"
               /\ UNCHANGED <<proxyReq, listeners>>
               /\ ResUnchanged
          ELSE \E throws \in BOOLEAN : Dial(throws)
    /\ UNCHANGED <<totalSize, chunksRead, isAborted, inboundFailed>>
    /\ ReqFrame

\* handleRequest, lines 140 and 353-365: the loop over a failed inbound
\* stream throws and the catch block answers.
ReceiveThrows ==
    /\ rqPc = "receiving"
    /\ inboundFailed
    /\ rqPc' = "returned"
    /\ listeners' = {}
    /\ RespondError(502, "proxy_error")
    /\ lastStep' = "catch"
    /\ UNCHANGED <<totalSize, chunksRead, isAborted, proxyReq, inboundFailed>>
    /\ ReqFrame

\* An event of the inbound request, "aborted" or "error", before the
\* response is complete: the listener, if still registered, runs once
\* (handleRequest, lines 106-123).
InboundEvent(event) ==
    /\ rqPc # "start"
    /\ ~resEnded
    /\ ~inboundFailed
    /\ inboundFailed' = TRUE
    /\ IF event \in listeners
          THEN /\ isAborted' = TRUE
               /\ proxyReq' = IF proxyReq = "open" THEN "destroyed" ELSE proxyReq
               /\ listeners' = listeners \ {event}
          ELSE UNCHANGED <<isAborted, proxyReq, listeners>>
    /\ UNCHANGED <<rqPc, totalSize, chunksRead>>
    /\ ResUnchanged
    /\ ReqFrame

\* The client closes the connection.
ClientAbort ==
    /\ lastStep' = "aborted"
    /\ InboundEvent("aborted")

\* The inbound stream fails.
InboundError ==
    /\ lastStep' = "error"
    /\ InboundEvent("error")

\* handleRequest, lines 213-232 and 291-306: the upstream answers with a
\* response that is piped to the client.
ResponseStreamed ==
    /\ rqPc = "dialing"
    /\ proxyReq = "open"
    /\ lastStep' = "response"
    /\ IF isAborted
          THEN /\ proxyReq' = "destroyed"
               /\ rqPc' = "returned"
               /\ UNCHANGED listeners
               /\ ResUnchanged
          ELSE /\ listeners' = {}
               /\ rqPc' = "streaming"
               /\ headersSent' = TRUE
               /\ writeHeads' = writeHeads + 1
               /\ \E status \in UpstreamStatuses : resStatus' = status
               /\ UNCHANGED <<proxyReq, resBody, resEnded, endCalls>>
    /\ chunksRead' = 0
    /\ UNCHANGED <<totalSize, isAborted, inboundFailed>>
    /\ ReqFrame

\* handleRequest, lines 213-236: the upstream answers with a response that
\* is buffered for signature extraction or transformation.
ResponseBuffered ==
    /\ rqPc = "dialing"
    /\ proxyReq = "open"
    /\ lastStep' = "response"
    /\ IF isAborted
          THEN /\ proxyReq' = "destroyed"
               /\ rqPc' = "returned"
          ELSE /\ rqPc' = "buffering"
               /\ UNCHANGED proxyReq
    /\ chunksRead' = 0
    /\ bufUpstream' \in {"anthropic", "zai"}
    /\ UNCHANGED <<totalSize, isAborted, listeners, inboundFailed, storeVars>>
    /\ ResUnchanged
    /\ ReqOthers

\* proxyRes.pipe(res): a chunk of the upstream response goes to the client.
StreamChunk ==
    /\ rqPc = "streaming"
    /\ proxyReq = "open"
    /\ ~resEnded
    /\ ~inboundFailed
    /\ chunksRead < MaxChunks
    /\ chunksRead' = chunksRead + 1
    /\ resBody' = Append(resBody, Written("upstream"))
    /\ lastStep' = "data"
    /\ UNCHANGED <<rqPc, totalSize, isAborted, proxyReq, listeners, inboundFailed,
                   headersSent, writeHeads, resStatus, resEnded, endCalls>>
    /\ ReqFrame

\* proxyRes.pipe(res): the upstream response ends and pipe ends res.
StreamEnd ==
    /\ rqPc = "streaming"
    /\ proxyReq = "open"
    /\ ~resEnded
    /\ ~inboundFailed
    /\ resEnded' = TRUE
    /\ endCalls' = endCalls + 1
    /\ proxyReq' = "complete"
    /\ rqPc' = "responded"
    /\ lastStep' = "end"
    /\ UNCHANGED <<totalSize, chunksRead, isAborted, listeners, inboundFailed,
                   headersSent, writeHeads, resStatus, resBody>>
    /\ ReqFrame

\* The signatures of `body` are added to the store.
RecordSignatures(body) ==
    LET done == extractAndRecordSignatures(
                    body, [cache |-> cache, accessOrder |-> accessOrder])
    IN  /\ cache' = done.store.cache
        /\ accessOrder' = done.store.accessOrder
        /\ mapCache' = mapAddEach(mapCache, recordedSignatures(body))
        /\ accessLog' = accessLog \o recordedSignatures(body)
        /\ UNCHANGED lastHas

\* A data handler that extracts signatures from what has arrived so far.
BufferData_RecordsPartial ==
    /\ rqPc = "buffering"
    /\ proxyReq = "open"
    /\ chunksRead < MaxChunks
    /\ chunksRead' = chunksRead + 1
    /\ lastStep' = "data"
    /\ \E body \in BufferedBodies : RecordSignatures(body)
    /\ UNCHANGED <<proxyReq, rqPc>>
    /\ ResUnchanged
    /\ UNCHANGED <<totalSize, isAborted, listeners, inboundFailed, bufVars>>
    /\ ReqOthers

\* handleRequest, lines 237-250: a chunk of a buffered response, within or
\* beyond MAX_TRANSFORM_SIZE.
BufferData ==
    /\ rqPc = "buffering"
    /\ proxyReq = "open"
    /\ chunksRead < MaxChunks
    /\ chunksRead' = chunksRead + 1
    /\ lastStep' = "data"
    /\ \E tooLarge \in BOOLEAN :
          IF ~isAborted /\ tooLarge
             THEN /\ proxyReq' = "destroyed"
                  /\ rqPc' = "returned"
                  /\ RespondError(502, "transform_error")
             ELSE /\ UNCHANGED <<proxyReq, rqPc>>
                  /\ ResUnchanged
    /\ UNCHANGED <<totalSize, isAborted, listeners, inboundFailed>>
    /\ ReqFrame

\* handleRequest, lines 252-290: the buffered response is complete; it is
\* processed and written, or the processing throws.
BufferEnd ==
    /\ rqPc = "buffering"
    /\ proxyReq = "open"
    /\ proxyReq' = "complete"
    /\ listeners' = {}
    /\ lastStep' = "end"
    /\ IF isAborted
          THEN /\ rqPc' = "returned"
               /\ ResUnchanged
               /\ UNCHANGED storeVars
          ELSE /\ rqPc' = "responded"
               /\ IF bufUpstream = "anthropic"
                     THEN \E body \in BufferedBodies : RecordSignatures(body)
                     ELSE UNCHANGED storeVars
               /\ \E throws \in BOOLEAN :
                     IF throws THEN RespondError(502, "transform_error")
                     ELSE /\ headersSent' = TRUE
                          /\ writeHeads' = writeHeads + 1
                          /\ \E status \in UpstreamStatuses : resStatus' = status
                          /\ resBody' = Append(resBody, Written("processed"))
                          /\ resEnded' = TRUE
                          /\ endCalls' = endCalls + 1
    /\ UNCHANGED <<totalSize, chunksRead, isAborted, inboundFailed, bufVars>>
    /\ ReqOthers

\* handleRequest, lines 311-323: the upstream socket was idle for
\* UPSTREAM_TIMEOUT_MS.
UpstreamTimeout ==
    /\ proxyReq = "open"
    /\ isAborted' = TRUE
    /\ proxyReq' = "destroyed"
    /\ listeners' = {}
    /\ RespondError(504, "gateway_timeout")
    /\ rqPc' = "returned"
    /\ lastStep' = "timeout"
    /\ UNCHANGED <<totalSize, chunksRead, inboundFailed>>
    /\ ReqFrame

\* handleRequest, lines 326-336: the upstream request fails (DNS, connect
\* refused, reset).
UpstreamError ==
    /\ proxyReq = "open"
    /\ proxyReq' = "failed"
    /\ lastStep' = "upstream-error"
    /\ IF isAborted
          THEN /\ UNCHANGED <<listeners, rqPc>>
               /\ ResUnchanged
          ELSE /\ listeners' = {}
               /\ rqPc' = "returned"
               /\ RespondError(502, "proxy_error")
    /\ UNCHANGED <<totalSize, chunksRead, isAborted, inboundFailed>>
    /\ ReqFrame

\* handleRequest, lines 339-346: the upstream response fails while it is
\* read; res.end() without data, which sends the implicit head when none
\* was written.
ResponseError ==
    /\ rqPc \in {"buffering", "streaming"}
    /\ proxyReq = "open"
    /\ proxyReq' = "failed"
    /\ rqPc' = "returned"
    /\ lastStep' = "response-error"
    /\ IF resEnded THEN ResUnchanged
       ELSE /\ headersSent' = TRUE
            /\ resStatus' = IF headersSent THEN resStatus ELSE 200
            /\ resEnded' = TRUE
            /\ endCalls' = endCalls + 1
            /\ UNCHANGED <<writeHeads, resBody>>
    /\ UNCHANGED <<totalSize, chunksRead, isAborted, listeners, inboundFailed>>
    /\ ReqFrame

ReqNext ==
    \/ StartWithoutBody
    \/ StartWithBody
    \/ ReceiveChunk
    \/ EndOfBody
    \/ ReceiveThrows
    \/ ClientAbort
    \/ InboundError
    \/ ResponseStreamed
    \/ ResponseBuffered
    \/ StreamChunk
    \/ StreamEnd
    \/ BufferData
    \/ BufferEnd
    \/ UpstreamTimeout
    \/ UpstreamError
    \/ ResponseError

(***************************************************************************)
(* Specifications of the lifecycle controller                              *)
(***************************************************************************)

\* A fresh stateDir: no lock, no PID file, no process, the port free.
LifeInit ==
    /\ pc = [w \in Wrappers |-> "idle"]
    /\ lockDir = FALSE
    /\ pidFile = NoPid
    /\ proc = [p \in Pids |-> "none"]
    /\ termPending = {}
    /\ listener = NoPid
    /\ claude = [w \in Wrappers |-> FALSE]
    /\ portL = [w \in Wrappers |-> FALSE]
    /\ lpid = [w \in Wrappers |-> NoPid]
    /\ res = [w \in Wrappers |-> "none"]
    /\ graceI = [w \in Wrappers |-> 0]
    /\ holds = [w \in Wrappers |-> FALSE]
    /\ vown = [w \in Wrappers |-> FALSE]
    /\ spawnCount = 0
    /\ signals = {}

\* The steps of start() and of the spawned server.
StartNext ==
    \/ \E w \in Wrappers : MainStart(w)
    \/ \E w \in Wrappers : StartRecoverProbe(w)
    \/ \E w \in Wrappers : StartRecoverDecide(w)
    \/ \E w \in Wrappers : StartCheckPort(w)
    \/ \E w \in Wrappers : StartAcquire(w)
    \/ \E w \in Wrappers : StartDoubleCheck(w)
    \/ \E w \in Wrappers : StartSpawn(w)
    \/ \E w \in Wrappers : StartSpawnFail(w)
    \/ \E w \in Wrappers : StartWritePid(w)
    \/ \E w \in Wrappers : WaitReadyOk(w)
    \/ \E w \in Wrappers : WaitReadyTimeout(w)
    \/ \E w \in Wrappers : StartRelease(w)
    \/ \E p \in Pids : ProxyListen(p)

\* The steps of main() after start(): the session, the grace loop and stop().
StopNext ==
    \/ \E w \in Wrappers : SpawnClaude(w)
    \/ \E w \in Wrappers : ClaudeExit(w)
    \/ \E w \in Wrappers : MainCheckClaude(w)
    \/ \E w \in Wrappers : GraceTick(w)
    \/ \E w \in Wrappers : StopRead(w)
    \/ \E w \in Wrappers : StopTerm(w)
    \/ \E w \in Wrappers : StopWaitEnd(w)
    \/ \E w \in Wrappers : StopKill(w)
    \/ \E w \in Wrappers : StopRemovePid(w)
    \/ \E p \in Pids : ExitOnSigterm(p)

EnvNext ==
    \/ \E p \in Pids : ProxyCrash(p)
    \/ \E p \in Pids : PidReuse(p)
    \/ \E p \in Pids : ForeignListen(p)

vars == <<lifeVars, storeVars, hdrVars, sanVars, oriVars, globVars, routeVars, reqVars, respVars, argVars, bufVars>>

\* A fresh stateDir, no proxy running, every wrapper about to start.
Init == LifeInit /\ StoreIdle /\ HdrIdle /\ SanIdle /\ OriIdle /\ GlobIdle /\ RouteIdle /\ ReqIdle /\ RespIdle /\ ArgIdle /\ BufIdle

\* Two wrappers call start() concurrently on a fresh stateDir.
SpecStart == Init /\ [][StartNext]_vars

\* Two wrappers run main() concurrently on a fresh stateDir.
Next == StartNext \/ StopNext
Spec == Init /\ [][Next]_vars

\* The same, on a machine where the proxy may crash, pids are reused and
\* other processes may bind the port.
SpecEnv == Init /\ [][Next \/ EnvNext]_vars

\* The lifecycle controller of a model that does not exercise it.
LifeIdle == LifeInit

\* Any sequence of add, has and clear on one store.
\* The state after `new SignatureStore(maxSize)`.
InitStore == StoreInit /\ LifeIdle /\ HdrIdle /\ SanIdle /\ OriIdle /\ GlobIdle /\ RouteIdle /\ ReqIdle /\ RespIdle /\ ArgIdle /\ BufIdle

SpecStore == InitStore /\ [][StoreNext]_vars

\* add() and has() are called with arguments of any type on a new store.
InitStoreArgs == ArgIdle /\ BufIdle /\ StoreInit /\ LifeIdle /\ HdrIdle /\ SanIdle /\ OriIdle /\ GlobIdle /\ RouteIdle /\ ReqIdle /\ RespIdle

SpecStoreArgs == InitStoreArgs /\ [][ArgNext]_vars

\* The proxy forwards one request.
InitHeaders == HdrIdle /\ LifeIdle /\ StoreIdle /\ SanIdle /\ OriIdle /\ GlobIdle /\ RouteIdle /\ ReqIdle /\ RespIdle /\ ArgIdle /\ BufIdle

SpecHeaders == InitHeaders /\ [][HdrNext]_vars

\* The proxy sanitizes one request for anthropic.
InitSanitize == SanInit /\ LifeIdle /\ HdrIdle /\ OriIdle /\ GlobIdle /\ RouteIdle /\ ReqIdle /\ RespIdle /\ ArgIdle /\ BufIdle

SpecSanitize == InitSanitize /\ [][SanNext]_vars

\* A conversation through a freshly started proxy.
InitOrigin == OriIdle /\ StoreInit /\ LifeIdle /\ HdrIdle /\ SanIdle /\ GlobIdle /\ RouteIdle /\ ReqIdle /\ RespIdle /\ ArgIdle /\ BufIdle

SpecOrigin == InitOrigin /\ [][OriNext]_vars

\* One pattern is compiled and tested against one string.
InitGlob == GlobIdle /\ LifeIdle /\ StoreIdle /\ HdrIdle /\ SanIdle /\ OriIdle /\ RouteIdle /\ ReqIdle /\ RespIdle /\ ArgIdle /\ BufIdle

SpecGlob == InitGlob /\ [][GlobNext]_vars

\* One request is routed under one configuration.
InitRoute == RouteIdle /\ LifeIdle /\ StoreIdle /\ HdrIdle /\ SanIdle /\ OriIdle /\ GlobIdle /\ ReqIdle /\ RespIdle /\ ArgIdle /\ BufIdle

SpecRoute == InitRoute /\ [][RouteNext]_vars

\* One buffered response is processed, on a store with some history.
InitResponse == RespIdle /\ BufIdle /\ StoreRecorded /\ LifeIdle /\ HdrIdle /\ SanIdle /\ OriIdle /\ GlobIdle /\ RouteIdle /\ ReqIdle /\ ArgIdle

SpecResponse == InitResponse /\ [][RespNext]_vars

\* One response of any content type is relayed, on a store with some
\* history.
InitRelay == RespIdle /\ BufIdle /\ StoreRecorded /\ LifeIdle /\ HdrIdle /\ SanIdle /\ OriIdle /\ GlobIdle /\ RouteIdle /\ ReqIdle /\ ArgIdle

SpecRelay == InitRelay /\ [][RelayNext]_vars

\* One request is handled, with every interleaving of inbound and upstream
\* events.
InitRequest == ReqIdle /\ LifeIdle /\ StoreIdle /\ HdrIdle /\ SanIdle /\ OriIdle /\ GlobIdle /\ RouteIdle /\ RespIdle /\ ArgIdle /\ BufIdle

SpecRequest == InitRequest /\ [][ReqNext]_vars

(***************************************************************************)
(* Claims about the lifecycle controller                                   *)
(***************************************************************************)

\* No wrapper is inside start() or stop(), and no spawned server is still on
\* its way to listen() or to its exit.
Quiescent ==
    /\ \A w \in Wrappers :
          pc[w] \in {"idle", "started", "running", "checkClaude", "grace", "exited"}
    /\ \A p \in Pids : proc[p] = "proxy" => listener = p
    /\ termPending = {}

\* C1: two concurrent start() invocations on a fresh stateDir, with no proxy
\* listening at the beginning, never spawn a second proxy child.
C1_SingletonExclusivity == spawnCount <= 1

C3_OneProxyAndPidFile ==
    (Quiescent /\ \A w \in Wrappers : res[w] # "timeout") =>
        /\ Cardinality({p \in Pids : proc[p] = "proxy"}) <= 1
        /\ listener # NoPid => pidFile = listener

\* C4: stop() never signals the proxy while the claude session of another
\* wrapper is running.
C4_NoStopWhileSessionUsesProxy == \A s \in signals : s.users = {}

(***************************************************************************)
(* Claims about the signature store                                        *)
(***************************************************************************)

\* The distinct signatures of an access log, most recently accessed first,
\* at most n of them.
RECURSIVE RecentDistinct(_, _, _)
RecentDistinct(log, n, seen) ==
    IF log = <<>> \/ n = 0 THEN <<>>
    ELSE LET x == log[Len(log)]
             rest == SubSeq(log, 1, Len(log) - 1)
         IN  IF x \in seen THEN RecentDistinct(rest, n, seen)
             ELSE <<x>> \o RecentDistinct(rest, n - 1, seen \cup {x})

Reverse(q) == [i \in 1..Len(q) |-> q[Len(q) + 1 - i]]

\* C5: after any sequence of add, has and clear, size <= maxSize and the store
\* retains exactly the maxSize most recently accessed distinct signatures
\* (an add and a has() hit are accesses), in both versions of the class; the
\* least recently accessed of them is the next to be evicted.
C5_LruCapacity ==
    LET recent == RecentDistinct(accessLog, StoreMaxSize, {})
    IN  /\ Cardinality(cache) <= StoreMaxSize
        /\ Len(mapCache) <= StoreMaxSize
        /\ cache = Range(recent)
        /\ accessOrder = Reverse(recent)
        /\ mapCache = Reverse(recent)

\* C5 witness: the store is at capacity after an eviction, and a has() hit has
\* promoted the entry that would otherwise be the next to go.
C5_Witness ==
    /\ Cardinality(cache) = StoreMaxSize
    /\ Cardinality(Range(accessLog)) > StoreMaxSize
    /\ lastHas = <<TRUE, TRUE>>
    /\ \E i \in 1..(Len(accessLog) - 1) :
          /\ accessLog[i] = accessLog[Len(accessLog)]
          /\ accessLog[i + 1] # accessLog[i]

(***************************************************************************)
(* Claims about the forwarded headers                                      *)
(***************************************************************************)

ConnectionListed(headers) ==
    IF "connection" \notin DOMAIN headers THEN {}
    ELSE CASE headers["connection"] = "keep-alive" -> {"keep-alive"}
           [] headers["connection"] = "close, Authorization" ->
                  {"close", "authorization"}
           [] headers["connection"] = "X-Custom,, x-api-key" ->
                  {"x-custom", "x-api-key"}

\* The header names that are never forwarded.
NeverForwarded(headers) ==
    HOP_BY_HOP_HEADERS \cup SECURITY_HEADERS_TO_REMOVE \cup {"host"}
        \cup ConnectionListed(headers)

\* The value of a header in a header set, Absent when it has none.
HeaderOf(headers, name) ==
    IF name \in DOMAIN headers THEN headers[name] ELSE Absent

\* The client's value of a header, Absent for the headers never forwarded.
Filtered(headers, name) ==
    IF name \in NeverForwarded(headers) THEN Absent ELSE HeaderOf(headers, name)

\* C17 (as claimed): content-length aside, the forwarded headers are exactly
\* the client's headers minus the hop-by-hop, forwarding/identity, host and
\* Connection-listed headers, with accept-encoding "identity"; and x-api-key
\* is the configured key for z.ai with a key.
C17_ForwardedExactlyFiltered ==
    hdrPc = "forwarded" =>
        /\ DOMAIN forwardHeaders \subseteq HeaderNames
        /\ \A name \in HeaderNames \ {"content-length"} :
              HeaderOf(forwardHeaders, name) =
                  IF name = "accept-encoding" THEN "identity"
                  ELSE IF name = "x-api-key" /\ target.name = "zai"
                                             /\ target.apiKey # ""
                     THEN target.apiKey
                  ELSE Filtered(reqHeaders, name)

\* C17 (amended): as claimed, except that for z.ai the authorization header
\* is removed as well; content-length is the length of the forwarded body
\* when the body was rewritten and is filtered like the rest otherwise.
C17_ForwardedFilteredNoZaiAuthorization ==
    hdrPc = "forwarded" =>
        /\ DOMAIN forwardHeaders \subseteq HeaderNames
        /\ \A name \in HeaderNames :
              HeaderOf(forwardHeaders, name) =
                  IF name = "accept-encoding" THEN "identity"
                  ELSE IF name = "content-length" /\ bodyWasRewritten
                     THEN ForwardBodyLength
                  ELSE IF name = "x-api-key" /\ target.name = "zai"
                                             /\ target.apiKey # ""
                     THEN target.apiKey
                  ELSE IF name = "authorization" /\ target.name = "zai"
                     THEN Absent
                  ELSE Filtered(reqHeaders, name)

\* C17 witness: a request whose Connection header lists x-custom and
\* x-api-key, carrying both and an accept-encoding, was forwarded to z.ai
\* with a key: x-custom is gone, x-api-key is the key, content-type is the
\* client's, accept-encoding is identity.
C17_Witness ==
    /\ hdrPc = "forwarded"
    /\ target = [name |-> "zai", apiKey |-> "zai-key"]
    /\ {"connection", "x-custom", "x-api-key", "accept-encoding", "content-type",
        "host", "x-forwarded-for", "te"} \subseteq DOMAIN reqHeaders
    /\ reqHeaders["connection"] = "X-Custom,, x-api-key"
    /\ DOMAIN forwardHeaders = {"accept-encoding", "content-type", "x-api-key"}
    /\ forwardHeaders["x-api-key"] = "zai-key"
    /\ forwardHeaders["accept-encoding"] = "identity"
    /\ forwardHeaders["content-type"] = reqHeaders["content-type"]

(***************************************************************************)
(* Claims about the request sanitizer                                      *)
(***************************************************************************)

\* The blocks of a block array, those nested in tool_results included.
RECURSIVE flattenBlocks(_)
flattenBlocks(blocks) ==
    IF blocks = <<>> THEN <<>>
    ELSE <<Head(blocks)>> \o flattenBlocks(Head(blocks).nested)
            \o flattenBlocks(Tail(blocks))

\* The blocks of a messages array, in order.
RECURSIVE AllBlocks(_)
AllBlocks(messages) ==
    IF messages = <<>> THEN <<>>
    ELSE flattenBlocks(Head(messages).content.blocks) \o AllBlocks(Tail(messages))

ThinkingBlocksOf(messages) ==
    SelectSeq(AllBlocks(messages), LAMBDA b : b.type = "thinking")

\* sanitizeContentBlocksWithStore has returned for a body with a messages
\* array, without catching an exception.
Sanitized ==
    /\ sanPc \in {"done", "again"}
    /\ reqBody.kind = "messages"
    /\ ~sanOut.threw

\* Message i of `messages` is a user message with a tool_result whose
\* tool_use_id names no tool_use of the assistant message just before it.
HasOrphanToolResult(messages, i) ==
    /\ messages[i].role = "user"
    /\ \E j \in 1..Len(messages[i].content.blocks) :
          LET b == messages[i].content.blocks[j]
          IN  /\ b.type = "tool_result"
              /\ ~ /\ i > 1
                   /\ messages[i - 1].role = "assistant"
                   /\ \E k \in 1..Len(messages[i - 1].content.blocks) :
                         /\ messages[i - 1].content.blocks[k].type = "tool_use"
                         /\ messages[i - 1].content.blocks[k].id = b.tool_use_id

\* No two adjacent messages of one role, no message with "" or [] as
\* content, no orphan tool_result in a user message.
WellStructured(messages) ==
    /\ \A i \in 1..(Len(messages) - 1) : messages[i].role # messages[i + 1].role
    /\ \A i \in 1..Len(messages) :
          /\ messages[i].content # StrContent("")
          /\ messages[i].content # ArrContent(<<>>)
          /\ ~HasOrphanToolResult(messages, i)

\* C7 (as claimed): for a non-empty messages array sanitized without internal
\* error, the output begins with a user message, has no two adjacent messages
\* of one role, no empty content and no orphan tool_result.
C7_StructurePostCondition ==
    (Sanitized /\ reqBody.messages # <<>>) =>
        /\ sanOut.messages # <<>>
        /\ sanOut.messages[1].role = "user"
        /\ WellStructured(sanOut.messages)

\* C7 (amended): for a non-empty messages array sanitized without internal
\* error, the output is empty or begins with a user message, and it has no
\* two adjacent messages of one role, no empty content and no orphan
\* tool_result.
C7_StructureUnlessEmptied ==
    (Sanitized /\ reqBody.messages # <<>>) =>
        /\ sanOut.messages # <<>> => sanOut.messages[1].role = "user"
        /\ WellStructured(sanOut.messages)

\* C7 witness: a request that began with an assistant message and carried an
\* orphan tool_result came out with a user message first and the tool_result
\* as text.
C7_Witness ==
    /\ Sanitized
    /\ reqBody.messages # <<>>
    /\ reqBody.messages[1].role = "assistant"
    /\ \E i \in 1..Len(reqBody.messages) : HasOrphanToolResult(reqBody.messages, i)
    /\ Len(sanOut.messages) >= 2
    /\ sanOut.messages[1].content = ArrContent(<<TextBlock("[previous tool result]\nresult")>>)

\* C8 (as claimed): every block of the output that is still a thinking block
\* has the fields type and content, optionally cache_control and signature,
\* and no other field; in particular no thinking sub-field.
C8_ThinkingBlockFields ==
    Sanitized =>
        \A i \in 1..Len(ThinkingBlocksOf(sanOut.messages)) :
            LET b == ThinkingBlocksOf(sanOut.messages)[i]
            IN  /\ {"type", "content"} \subseteq Fields(b)
                /\ Fields(b) \subseteq {"type", "content", "cache_control", "signature"}

\* C8 (amended): every block of the output that is still a thinking block is
\* a block of the input, unchanged; its signature is a non-empty string; and
\* it has a thinking sub-field only if its signature is in the store.
C8_ThinkingBlocksKeptAsReceived ==
    Sanitized =>
        \A i \in 1..Len(ThinkingBlocksOf(sanOut.messages)) :
            LET b == ThinkingBlocksOf(sanOut.messages)[i]
            IN  /\ b \in Range(ThinkingBlocksOf(reqBody.messages))
                /\ IsNonEmptyString(b.signature)
                /\ b.thinking # Absent => b.signature \in cache

\* C8 witness: the output holds a thinking block with a thinking sub-field
\* and a cache_control, nested in a tool_result.
C8_Witness ==
    /\ Sanitized
    /\ \E i \in 1..Len(sanOut.messages) :
          \E j \in 1..Len(sanOut.messages[i].content.blocks) :
              LET tr == sanOut.messages[i].content.blocks[j]
              IN  /\ tr.type = "tool_result"
                  /\ \E k \in 1..Len(tr.nested) :
                        /\ tr.nested[k].type = "thinking"
                        /\ tr.nested[k].thinking = "thought"
                        /\ tr.nested[k].cache_control # Absent

\* The thinking blocks of `messages` whose signature is a non-empty string
\* that the store holds.
RecordedThinking(messages) ==
    SelectSeq(ThinkingBlocksOf(messages),
              LAMBDA b : IsNonEmptyString(b.signature) /\ b.signature \in cache)

\* C10: every thinking block of the request whose signature is a non-empty
\* string in the store is in the output, unchanged, wherever in the messages
\* array it was.
C10_RecordedThinkingKept ==
    (sanPc \in {"done", "again"} /\ reqBody.kind = "messages") =>
        RecordedThinking(sanOut.messages) = RecordedThinking(reqBody.messages)

\* C11: every thinking block whose signature is not recorded in the store
\* has been converted: no block of the output is a thinking block unless its
\* signature is a non-empty string that the store holds.
C11_UnrecordedThinkingConverted ==
    Sanitized =>
        \A i \in 1..Len(ThinkingBlocksOf(sanOut.messages)) :
            LET b == ThinkingBlocksOf(sanOut.messages)[i]
            IN  IsNonEmptyString(b.signature) /\ b.signature \in cache

\* C12: sanitizing the body the sanitizer returned, with the same store,
\* returns that body itself: same messages, not serialised anew.
C12_SecondPassChangesNothing ==
    sanPc = "again" =>
        /\ sanAgain.messages = sanOut.messages
        /\ ~sanAgain.rewritten
        /\ sanAgain.threw = sanOut.threw

\* C12 witness: the second pass ran on a body whose first pass needed a
\* further iteration of the structure loop, converted a thinking block and
\* left messages to forward.
C12_Witness ==
    /\ sanPc = "again"
    /\ sanOut.rewritten
    /\ sanOut.iterations >= 3
    /\ sanOut.messages # <<>>
    /\ Len(ThinkingBlocksOf(sanOut.messages)) < Len(ThinkingBlocksOf(reqBody.messages))

\* The tool_use_id of block b, in message i, is missing or names no tool_use
\* block of an assistant message just before message i.
IsOrphanToolResult(messages, i, b) ==
    \/ b.tool_use_id \in {Absent, ""}
    \/ i = 1
    \/ messages[i - 1].role # "assistant"
    \/ ~\E k \in 1..Len(messages[i - 1].content.blocks) :
           /\ messages[i - 1].content.blocks[k].type = "tool_use"
           /\ messages[i - 1].content.blocks[k].id = b.tool_use_id

\* The texts of a sequence of text blocks, one per line.
RECURSIVE Lines(_)
Lines(texts) ==
    IF Len(texts) = 1 THEN texts[1].text
    ELSE texts[1].text \o "\n" \o Lines(Tail(texts))

\* The text a tool_result has of its own: its content string, or the texts
\* of its nested text blocks; "" when it has none.
OwnText(b) ==
    IF b.content = JsArray
       THEN LET texts == SelectSeq(b.nested, LAMBDA n : n.type = "text")
            IN  IF texts = <<>> THEN "" ELSE Lines(texts)
    ELSE IF b.content = Absent THEN "" ELSE b.content

C14_ReturnsInputUnlessChanged ==
    sanPc \in {"done", "again"} =>
        /\ (reqBody.kind # "messages" \/ sanOut.threw) =>
              ~sanOut.rewritten /\ sanOut.messages = reqBody.messages
        /\ sanOut.rewritten <=> sanOut.messages # reqBody.messages

\* C14 witness: mergeMessages threw after a thinking block had already been
\* converted, and the input came back.
C14_Witness ==
    /\ sanPc = "done"
    /\ sanOut.threw
    /\ \E i \in 1..Len(reqBody.messages) :
          reqBody.messages[i].content = ArrContent(<<GlmThinking>>)
    /\ sanOut.messages = reqBody.messages

(***************************************************************************)
(* Claims about the origin of thinking blocks                              *)
(***************************************************************************)

\* C9: of the blocks a client sends back, none that came from z.ai is
\* forwarded to anthropic as a thinking block: each has become a text block,
\* whatever its shape and whether its response was buffered or streamed.
C9_NoZaiThinkingForwarded ==
    \A i \in 1..Len(echoOut) :
        echoOut[i].origin = "zai" => echoOut[i].forwarded.type = "text"


(***************************************************************************)
(* Claims about the model router                                           *)
(***************************************************************************)

\* Whole-string glob matching: "*" stands for any run of characters, the
\* empty one included; every other character stands for itself.
RECURSIVE GlobMatches(_, _)
GlobMatches(p, str) ==
    IF p = <<>> THEN str = <<>>
    ELSE IF p[1] = "*"
        THEN \/ GlobMatches(Tail(p), str)
             \/ str # <<>> /\ GlobMatches(p, Tail(str))
    ELSE str # <<>> /\ str[1] = p[1] /\ GlobMatches(Tail(p), Tail(str))

\* C16: for every pattern of literal characters and "*" and every string,
\* the compiled matcher accepts the string iff the string matches the
\* pattern as a whole-string glob; "?" and "." are literal characters.
C16_GlobEquivalence ==
    globPc = "tested" =>
        (matched = "match" <=> GlobMatches(pattern, subject))

\* The route the configuration prescribes for an upstream name and a rewrite.
ExpectedRoute(name, rewrite) ==
    [name |-> name,
     url |-> IF name = "zai" THEN ZaiUrl ELSE AnthropicUrl,
     apiKey |-> IF name = "zai" THEN ZaiApiKey ELSE Absent,
     model |-> rewrite]

\* C15: under a configuration whose upstream names are all known, selectRoute
\* returns the route of the first rule, in declared order, whose glob
\* matches the model (name, url, apiKey for zai only, the rule's rewrite),
\* and the route of routing.default without rewrite when no rule matches.
C15_FirstMatchingRuleWins ==
    (/\ routePc = "routed"
     /\ isValidUpstream(config.default)
     /\ \A i \in 1..Len(config.rules) : isValidUpstream(config.rules[i].upstream))
    => LET modelToMatch == IF model = Absent THEN <<>> ELSE model
           matching == {i \in 1..Len(config.rules) :
                           GlobMatches(config.rules[i].match, modelToMatch)}
       IN  IF matching = {}
              THEN selectedRoute = ExpectedRoute(config.default, Absent)
           ELSE LET first == CHOOSE i \in matching : \A j \in matching : i <= j
                IN  selectedRoute = ExpectedRoute(config.rules[first].upstream,
                                                  config.rules[first].model)


(***************************************************************************)
(* Claims about the request handler                                        *)
(***************************************************************************)

\* C18: when the body counted so far exceeds 10 MiB, the response is one
\* status line 413 with the payload_too_large envelope as its whole body,
\* it is ended, and no upstream request exists.
C18_BodyCapAnswers413 ==
    totalSize > 10 * 1024 * 1024 =>
        /\ writeHeads = 1
        /\ resStatus = 413
        /\ resBody = <<[kind |-> "payload_too_large", headersWereSent |-> FALSE]>>
        /\ resEnded
        /\ proxyReq = "none"

\* C18 witness: the third chunk took the body over the cap and the request
\* was answered 413.
C18_Witness ==
    /\ chunksRead = 3
    /\ totalSize = 3 * 4194304
    /\ resStatus = 413
    /\ rqPc = "returned"

\* C19: after a client abort, an inbound request error or an upstream
\* timeout, in whatever state of the request, no upstream request is still
\* in flight.
C19_AbortDestroysUpstream ==
    lastStep \in {"aborted", "error", "timeout"} => proxyReq # "open"

\* C20: an error envelope is in the response body only if the headers had
\* not been sent when the handler wrote it: it is then the whole body, under
\* a status line 413, 502 or 504.
C20_NoEnvelopeAfterHeaders ==
    \A i \in 1..Len(resBody) :
        resBody[i].kind \in Envelopes =>
            /\ ~resBody[i].headersWereSent
            /\ Len(resBody) = 1
            /\ resStatus \in {413, 502, 504}

(***************************************************************************)
(* Claims about buffered responses                                         *)
(***************************************************************************)

\* The j-th of the candidates the content of a transformed thinking block is
\* chosen from: block.content, block.thinking, thinking.content,
\* thinking.thinking, thinking.text, each counting only when it is a string,
\* then the JSON text of a thinking object.
ContentCandidate(block, j) ==
    LET isObject == TypeOf(block.thinking) = "object" /\ block.thinking # JsNull
    IN  CASE j = 1 -> block.content
          [] j = 2 -> block.thinking
          [] j = 3 -> IF isObject THEN ObjField(block.thinking, "content") ELSE Absent
          [] j = 4 -> IF isObject THEN ObjField(block.thinking, "thinking") ELSE Absent
          [] j = 5 -> IF isObject THEN ObjField(block.thinking, "text") ELSE Absent
          [] j = 6 -> IF isObject THEN JSONstringify(block.thinking) ELSE Absent
          [] OTHER -> ""

FirstCandidate(block) ==
    LET j == CHOOSE k \in 1..7 :
                /\ TypeOf(ContentCandidate(block, k)) = "string"
                /\ \A l \in 1..(k - 1) : TypeOf(ContentCandidate(block, l)) # "string"
    IN  ContentCandidate(block, j)

ExtractionStep ==
    respPc = "received" /\ respPc' = "processed" /\ respUpstream = "anthropic"

\* The top-level thinking blocks of the response that have a non-empty
\* string as signature.
SignedThinking ==
    {i \in 1..Len(respBody.blocks) :
        /\ respBody.kind = "array"
        /\ respBody.blocks[i].type = "thinking"
        /\ TypeOf(respBody.blocks[i].signature) = "string"
        /\ respBody.blocks[i].signature # ""}

\* The signatures of those blocks, in the order of the blocks.
RECURSIVE SignaturesFrom(_)
SignaturesFrom(i) ==
    IF i > Len(respBody.blocks) THEN <<>>
    ELSE IF i \in SignedThinking
        THEN <<respBody.blocks[i].signature>> \o SignaturesFrom(i + 1)
        ELSE SignaturesFrom(i + 1)

InStop(w) == pc[w] \in {"stopTerm", "stopWait", "stopKill", "stopRm"}

InStart(w) ==
    pc[w] \in {"recover", "recover2", "check", "acquire", "dcheck", "spawn",
               "writePid", "waitOwn", "waitOther", "release"}

\* C24: a start() that acquired the lock directory has released it when it
\* returns or throws, whichever way it ends, and when no start() is running
\* there is no lock directory.
C24_LockReleasedOnEveryExit ==
    /\ \A w \in Wrappers : ~InStart(w) => ~holds[w]
    /\ (\A w \in Wrappers : ~InStart(w)) => ~lockDir

\* Both start() calls are over, one after a failed spawn under the lock and
\* one after finding the port taken by another process under the lock, and
\* the lock directory is gone.
C24_Witness ==
    \E w, v \in Wrappers :
        /\ pc[w] = "exited" /\ res[w] = "spawnFail"
        /\ pc[v] = "exited" /\ res[v] = "timeout" /\ lpid[v] # NoPid
        /\ ~lockDir

\* The step in which recoverStaleLock decides.
RecoveryStep(w) == pc[w] = "recover2" /\ pc'[w] = "check"

\* The PID of the PID file is that of a live process.
PidFileAlive == pidFile >= 1 /\ proc[pidFile] # "none"

\* The process of the PID file is the listener on the port.
PidFileOwnsPort == PidFileAlive /\ listener = pidFile

\* The process of the PID file is a spawned proxy that has not bound the
\* port yet.
PidFileStartingUp ==
    PidFileAlive /\ proc[pidFile] = "proxy" /\ listener # pidFile

\* C27: recoverStaleLock removes lock/ and proxy.pid exactly when the lock
\* directory exists and either the port is not listening and the PID of the
\* PID file is not alive, or that PID is alive but does not own the port;
\* in every other case, and while the process of the PID file is starting up
\* or owns the port, lock/ and proxy.pid stay as they are.
C27_StaleLockRecovery ==
    [][\A w \in Wrappers : RecoveryStep(w) =>
          LET stale == lockDir /\ \/ ~portL[w] /\ ~PidFileAlive
                                  \/ PidFileAlive /\ ~PidFileOwnsPort
          IN  /\ (stale /\ ~PidFileStartingUp) => ~lockDir' /\ pidFile' = NoPid
              /\ ~stale => UNCHANGED <<lockDir, pidFile>>
              /\ (PidFileStartingUp \/ PidFileOwnsPort) =>
                     UNCHANGED <<lockDir, pidFile>>]_vars

\* The PID-file process as start() must find it to return "already running":
\* alive and listed as the listener on the port.
AlreadyRunning == pidFile >= 1 /\ proc[pidFile] # "none" /\ listener = pidFile

Kills(w, sent) == {r \in sent : r.by = w /\ r.sig = "SIGKILL"}

ValidSignature(value) ==
    value \notin {"", Absent, JsNull, JsNumber, JsArray} \cup JsObjects

\* C25: add() with an argument that is not a non-empty string (the empty
\* string, a number, null, undefined, an object) leaves the size and the
\* access order of the store as they were, and has() with such an argument
\* returns false and leaves the access order as it was.
C25_InvalidArgumentsIgnored ==
    [][(lastCall'.n = lastCall.n + 1 /\ ~ValidSignature(lastCall'.value)) =>
          /\ Cardinality(cache') = Cardinality(cache)
          /\ accessOrder' = accessOrder
          /\ lastCall'.op = "has" => ~lastHas'[1]]_vars

\* C25 for the class of part_006.
C25_InvalidArgumentsIgnoredByMap ==
    [][(lastCall'.n = lastCall.n + 1 /\ ~ValidSignature(lastCall'.value)) =>
          /\ mapCache' = mapCache
          /\ lastCall'.op = "has" => ~lastHas'[2]]_vars

(***************************************************************************)
(* Claims about the rules for one thinking block                           *)
(***************************************************************************)

\* The output has the messages of the request, each with its role and as
\* many blocks, nested ones included: the structure repair moved nothing.
SameShape ==
    /\ Len(sanOut.messages) = Len(reqBody.messages)
    /\ \A i \in 1..Len(reqBody.messages) :
          /\ sanOut.messages[i].role = reqBody.messages[i].role
          /\ sanOut.messages[i].content.kind = reqBody.messages[i].content.kind
          /\ Len(sanOut.messages[i].content.blocks)
                = Len(reqBody.messages[i].content.blocks)
          /\ \A j \in 1..Len(reqBody.messages[i].content.blocks) :
                Len(sanOut.messages[i].content.blocks[j].nested)
                  = Len(reqBody.messages[i].content.blocks[j].nested)

\* A text block that wraps some reasoning in <previous-glm-reasoning> tags.
IsWrappedReasoning(block) ==
    /\ block.type = "text"
    /\ Fields(block) = {"type", "text"}
    /\ \E inner \in {"", "thought", "reasoning", "object content", "object text"} :
          block.text = "<previous-glm-reasoning>\n" \o inner
                          \o "\n</previous-glm-reasoning>"

\* What the rules make of a thinking block whose signature the store does
\* not hold: text when it has a thinking sub-field, itself when it has none
\* and its signature is a non-empty string, text otherwise.
RuledAsClaimed(before, after) ==
    IF before.thinking # Absent THEN IsWrappedReasoning(after)
    ELSE IF TypeOf(before.signature) = "string" /\ before.signature # ""
       THEN after = before
    ELSE IsWrappedReasoning(after)

ValidRules(cfg) ==
    SelectSeq(cfg.rules, LAMBDA rule : isValidUpstream(rule.upstream))

\* The selection skips the rules with an unknown upstream name, whatever
\* their pattern, and an unknown default stands for anthropic without key.
C33_SkipsAndDefaults ==
    routePc = "routed" =>
        /\ selectedRoute = selectRoute(model, [config EXCEPT !.rules = ValidRules(config)])
        /\ (/\ ValidRules(config) = <<>>
            /\ ~isValidUpstream(config.default))
           => selectedRoute = ExpectedRoute("anthropic", Absent)

\* C33: selectRoute skips a rule whose upstream is neither "anthropic" nor
\* "zai" even when its pattern matches and goes on with the later rules; an
\* unknown routing.default resolves to anthropic with its url and no apiKey;
\* selectRoute returns a route for every input and never fails.
C33_SelectRouteTotal ==
    routePc = "routed" =>
        /\ selectedRoute.name \in VALID_UPSTREAMS
        /\ selectedRoute = selectRoute(model, [config EXCEPT !.rules = ValidRules(config)])
        /\ (\A i \in 1..Len(config.rules) :
                isValidUpstream(config.rules[i].upstream)
                => globTest(config.rules[i].match,
                            IF model = Absent THEN <<>> ELSE model) = "nomatch")
           => selectedRoute = ExpectedRoute(IF isValidUpstream(config.default)
                                               THEN config.default
                                               ELSE "anthropic", Absent)

\* A rule with an unknown upstream name whose pattern matches was passed over.
C33_Witness ==
    /\ routePc = "routed"
    /\ Len(config.rules) = 2
    /\ config.rules[1].upstream = "openai"
    /\ config.rules[1].match = <<"*">>
    /\ config.rules[2].upstream = "zai"
    /\ selectedRoute.name = "zai"


(***************************************************************************)
(* Claims about the number of heads and ends of one response               *)
(***************************************************************************)

\* C37: for every request and every interleaving of upstream response,
\* data, end, error, timeout and client abort, the handler calls
\* res.writeHead at most once and res.end at most once.
C37_OneHeadOneEnd ==
    /\ writeHeads <= 1
    /\ endCalls <= 1

\* The upstream timed out after the head and a chunk of a streamed response
\* had been written: the timeout handler wrote no second head and made the
\* only call of res.end.
C37_Witness ==
    /\ lastStep = "timeout"
    /\ Len(resBody) >= 2
    /\ resBody[1].kind = "upstream"
    /\ writeHeads = 1
    /\ endCalls = 1


(***************************************************************************)
(* Claims about the lock directory as a mutex of start()                   *)
(***************************************************************************)

\* The step is one of wrapper v.
StepOf(v) == pc'[v] # pc[v]

\* C36: while a start() invocation holds the lock directory, no step of
\* another start() invocation removes the lock directory or proxy.pid and
\* no acquireLock of another invocation succeeds: neither recoverStaleLock
\* nor releaseLock removes the lock of a running starter.
C36_LockHeldExclusively ==
    [][\A w, v \in Wrappers :
          (holds[w] /\ v # w /\ StepOf(v))
          => /\ lockDir => lockDir'
             /\ pidFile # NoPid => pidFile' # NoPid
             /\ holds'[v] => holds[v]]_vars


(***************************************************************************)
(* Claims about the store and blocks without a thinking sub-field          *)
(***************************************************************************)

\* No thinking block of the request has a thinking sub-field.
NoThinkingSubField ==
    \A i \in 1..Len(ThinkingBlocksOf(reqBody.messages)) :
        ThinkingBlocksOf(reqBody.messages)[i].thinking = Absent

StructureFixPoint(messages) ==
    /\ dropLeadingNonUser(messages) = messages
    /\ mergeSameRole(<<>>, messages, FALSE) = [messages |-> messages, threw |-> FALSE]
    /\ SelectSeq(messages, hasContent) = messages

KeptInPlace ==
    /\ Len(sanOut.messages) = Len(reqBody.messages)
    /\ \A i \in 1..Len(reqBody.messages) :
          /\ sanOut.messages[i].role = reqBody.messages[i].role
          /\ Len(sanOut.messages[i].content.blocks)
                = Len(reqBody.messages[i].content.blocks)

\* What the claim says of a tool_result with an array as content: it is
\* still a tool_result with its tool_use_id and as many nested blocks, a
\* nested thinking block whose signature the store holds is the block
\* received, and any other nested thinking block comes out as the rules say.
NestedAsClaimed(before, after) ==
    /\ after.type = "tool_result"
    /\ after.tool_use_id = before.tool_use_id
    /\ Len(after.nested) = Len(before.nested)
    /\ \A k \in 1..Len(before.nested) :
          before.nested[k].type = "thinking" =>
              IF IsNonEmptyString(before.nested[k].signature)
                    /\ before.nested[k].signature \in cache
                 THEN after.nested[k] = before.nested[k]
                 ELSE RuledAsClaimed(before.nested[k], after.nested[k])

\* C34: a tool_result whose content is an array stays a tool_result with
\* its tool_use_id, and the thinking blocks nested in it are treated by the
\* rules of top-level thinking blocks: kept with their signature when the
\* store holds it, turned into text when they are of z.ai origin.
C34_NestedThinkingInToolResult ==
    (Sanitized /\ KeptInPlace) =>
        \A i \in 1..Len(reqBody.messages) :
            \A j \in 1..Len(reqBody.messages[i].content.blocks) :
                LET before == reqBody.messages[i].content.blocks[j]
                IN  (before.type = "tool_result" /\ before.content = JsArray)
                    => NestedAsClaimed(before, sanOut.messages[i].content.blocks[j])

\* The same for the tool_results that answer a tool_use of the assistant
\* message just before them.
C34_NestedThinkingInMatchedToolResult ==
    (Sanitized /\ KeptInPlace) =>
        \A i \in 1..Len(reqBody.messages) :
            \A j \in 1..Len(reqBody.messages[i].content.blocks) :
                LET before == reqBody.messages[i].content.blocks[j]
                IN  (/\ before.type = "tool_result" /\ before.content = JsArray
                     /\ reqBody.messages[i].role = "user"
                     /\ ~isOrphaned(reqBody.messages, i, before))
                    => NestedAsClaimed(before, sanOut.messages[i].content.blocks[j])


(***************************************************************************)
(* Claims about z.ai thinking blocks that were transformed on their way    *)
(* to the client                                                           *)
(***************************************************************************)

contentFromThinking(block) ==
    IF TypeOf(block.thinking) = "string" THEN block.thinking
    ELSE IF TypeOf(block.thinking) = "object" /\ block.thinking # JsNull THEN
        IF TypeOf(ObjField(block.thinking, "content")) = "string"
           THEN ObjField(block.thinking, "content")
        ELSE IF TypeOf(ObjField(block.thinking, "thinking")) = "string"
           THEN ObjField(block.thinking, "thinking")
        ELSE IF TypeOf(ObjField(block.thinking, "text")) = "string"
           THEN ObjField(block.thinking, "text")
        ELSE JSONstringify(block.thinking)
    ELSE JsNull

\* A rewriting that lets the content the block already has stand.
sanitizeThinkingBlock_KeepContent(block) ==
    [NoBlock EXCEPT
        !.type = "thinking",
        !.cache_control = block.cache_control,
        !.content = IF ~Falsy(block.content) THEN block.content
                    ELSE IF contentFromThinking(block) # JsNull
                       THEN contentFromThinking(block)
                    ELSE ""]

\* transform.ts sanitizeThinkingBlock(): steps 2 to 5.
sanitizeThinkingBlock(block) ==
    LET copied == IF contentFromThinking(block) # JsNull
                     THEN contentFromThinking(block)
                     ELSE block.content
    IN  [NoBlock EXCEPT
            !.type = "thinking",
            !.cache_control = block.cache_control,
            !.content = IF Falsy(copied) THEN "" ELSE copied]

\* transform.ts sanitizeContentBlock().
RECURSIVE sanitizeContentBlock(_)
sanitizeContentBlock(block) ==
    IF block.type = "thinking" THEN sanitizeThinkingBlock(block)
    ELSE IF block.type = "tool_result" /\ block.content = JsArray THEN
        [block EXCEPT !.nested =
            [i \in 1..Len(block.nested) |-> sanitizeContentBlock(block.nested[i])]]
    ELSE block

\* transform.ts sanitizeMessage().
sanitizeMessage(message) ==
    IF message.content.kind = "array"
       THEN [message EXCEPT !.content.blocks =
                [i \in 1..Len(message.content.blocks) |->
                    sanitizeContentBlock(message.content.blocks[i])]]
       ELSE message

\* transform.ts sanitizeContentBlocks(): the body it returns and whether it
\* is JSON.stringify(parsed) rather than the string received.  Every
\* thinking block is replaced by a new object, so a body with one is
\* serialised anew.
sanitizeContentBlocks(body) ==
    IF body.kind # "messages" THEN [body |-> body, rewritten |-> FALSE]
    ELSE [body |-> [body EXCEPT !.messages =
                       [i \in 1..Len(body.messages) |-> sanitizeMessage(body.messages[i])]],
          rewritten |-> ThinkingBlocksOf(body.messages) # <<>>]

\* The thinking blocks a caller without store passes: signed or not, the
\* thinking sub-field absent, a string, null or an object, the content
\* absent, a string, null or an object.
LegacyThinking ==
    {Thinking(sg, th, ct, cc) :
        sg \in {Absent, "s1"},
        th \in {Absent, "", "thought", JsNull, "<{content,thinking,text}>",
                "<{thinking,text}>", "<{text}>", "<{other}>"},
        ct \in {Absent, "", "reasoning", JsNull, "<{text}>"},
        cc \in {Absent, "<{ephemeral}>"}}

\* Messages arrays with one thinking block, at the top level of a message
\* or nested in a tool_result, beside blocks of other types.
LegacyMessages ==
    UNION {{<<Message("assistant", ArrContent(<<b>>))>>,
            <<Message("user", StrContent("hi")),
              Message("assistant", ArrContent(<<TextBlock("t"), b, ToolUse("id1")>>))>>,
            <<Message("assistant", StrContent("")),
              Message("user", ArrContent(<<ToolResultOf("id1", <<TextBlock("t"), b>>),
                                           ToolResult("id2", "result")>>))>>}
           : b \in LegacyThinking}
      \cup {<<>>,
            <<Message("assistant", StrContent("hi")), Message("assistant", OtherContent)>>,
            <<Message("user", ArrContent(<<TextBlock("t"), ToolResult("id1", "result")>>))>>}

\* The bodies: with other top-level fields beside messages.
LegacyBodies ==
    {[kind |-> k, messages |-> <<>>, model |-> Absent, system |-> Absent]
        : k \in {"notJson", "noMessages"}}
      \cup [kind : {"messages"}, messages : LegacyMessages,
            model : {Absent, "claude-sonnet-4-5"}, system : {Absent, "be brief"}]

\* A caller hands a request body to sanitizeContentBlocks.
LegacyReceive ==
    /\ sanPc = "idle"
    /\ \E body \in LegacyBodies : reqBody' = body
    /\ sanPc' = "legacyRequest"
    /\ UNCHANGED <<sanOut, sanAgain, storeVars>>
    /\ SanFrame

\* sanitizeContentBlocks(requestBody).
SanitizeLegacy ==
    /\ sanPc = "legacyRequest"
    /\ sanOut' = sanitizeContentBlocks(reqBody)
    /\ sanPc' = "legacyDone"
    /\ UNCHANGED <<reqBody, sanAgain, storeVars>>
    /\ SanFrame

LegacyNext == LegacyReceive \/ SanitizeLegacy

\* One body is sanitized without store.
InitLegacy == SanIdle /\ StoreIdle /\ LifeIdle /\ HdrIdle /\ OriIdle /\ GlobIdle /\ RouteIdle /\ ReqIdle /\ RespIdle /\ ArgIdle /\ BufIdle

SpecLegacy == InitLegacy /\ [][LegacyNext]_vars

(***************************************************************************)
(* Claims about the sanitizer without store                                *)
(***************************************************************************)

\* The thinking sub-field holds something to extract: a string or an object.
HasThinkingValue(block) ==
    \/ TypeOf(block.thinking) = "string"
    \/ TypeOf(block.thinking) = "object" /\ block.thinking # JsNull

\* What the claim says of one block and what it became.
RewrittenAsClaimed(before, after) ==
    IF before.type = "thinking"
       THEN /\ after.type = "thinking"
            /\ {"type", "content"} \subseteq Fields(after)
            /\ Fields(after) \subseteq {"type", "content", "cache_control"}
            /\ after.cache_control = before.cache_control
            /\ after.nested = <<>>
            /\ after.content =
                  IF HasThinkingValue(before)
                     THEN FirstCandidate([before EXCEPT !.content = Absent])
                  ELSE IF before.content \in {Absent, JsNull, ""} THEN ""
                  ELSE before.content
       ELSE /\ [after EXCEPT !.nested = <<>>] = [before EXCEPT !.nested = <<>>]
            /\ Len(after.nested) = Len(before.nested)

JsonTypes == {"application/json", "application/json; charset=utf-8"}

\* The step in which the response callback deals with a response.
RelayStep == respPc = "arrived" /\ respPc' = "relayed"

\* C31: a response is buffered exactly when its content-type contains
\* application/json; a buffered body is rewritten by transformThinkingBlocks
\* only when the route is z.ai; signatures are added to the store only from
\* a buffered response of anthropic, whose body reaches the client as it
\* was received; every other response is piped to the client as received,
\* with the store untouched.
C31_BufferedIffJson ==
    [][RelayStep =>
          /\ (respOut'.relay # "streamed") <=> (respType \in JsonTypes)
          /\ respOut'.relay = "buffered" =>
                IF respUpstream = "zai"
                   THEN /\ respOut'.body = transformResponse(respBody).body
                        /\ UNCHANGED storeVars
                   ELSE /\ respOut'.body = respBody
                        /\ ~respOut'.rewritten
                        /\ cache' = addEach([cache |-> cache, accessOrder |-> accessOrder],
                                            recordedSignatures(respBody)).cache
          /\ respOut'.relay # "buffered" => UNCHANGED storeVars
          /\ respOut'.relay = "streamed" =>
                (respOut'.body = respBody /\ ~respOut'.rewritten)]_vars

\* A JSON response of anthropic, declared with a charset parameter, was
\* buffered: its new signature is in the store and its body went to the
\* client as received; and an event stream of z.ai with a thinking block
\* would have been piped.
C31_Witness ==
    /\ respPc = "relayed"
    /\ respUpstream = "anthropic"
    /\ respType = "application/json; charset=utf-8"
    /\ respOut.relay = "buffered"
    /\ respBody.kind = "array"
    /\ respBody.blocks = <<Thinking("s3", "thought", Absent, Absent)>>
    /\ "s3" \in cache
    /\ respOut.body = respBody


(***************************************************************************)
(* THE REQUEST BODY ON ITS WAY UPSTREAM (proxy/server.ts handleRequest,    *)
(* lines 128-195: route, model rewrite, sanitization)                      *)
(***************************************************************************)

\* A request body: none (the request has no body), empty, text that is not
\* JSON, a JSON array, or a JSON object with or without a messages array
\* and with or without a model.
ForwardBody(kind, messages, m) == [kind |-> kind, messages |-> messages, model |-> m]

\* The conversations of the requests: plain, with an echoed thinking block
\* of z.ai or of anthropic, with a leading assistant message, with an
\* orphan tool_result.
ForwardMessages ==
    {<<Message("user", StrContent("hi"))>>,
     <<Message("user", StrContent("hi")),
       Message("assistant", ArrContent(<<GlmThinking>>)),
       Message("user", StrContent("go on"))>>,
     <<Message("user", StrContent("hi")),
       Message("assistant", ArrContent(<<AnthropicThinking>>)),
       Message("user", StrContent("go on"))>>,
     <<Message("assistant", StrContent("plain")), Message("user", StrContent("hi"))>>,
     <<Message("user", ArrContent(<<ToolResult("id1", "result")>>))>>}

\* The kinds of request bodies, and the model fields of the JSON objects.
BodyKinds == {"none", "empty", "notJson", "jsonArray", "noMessages", "messages"}

ClientModels == {Absent, <<"a">>, <<"a", "a">>}

\* The content-type headers of requests: none, JSON with and without a
\* parameter, plain text.
ForwardHeaders ==
    {NoHeaders} \cup {[k \in {"content-type"} |-> v] :
                        v \in {"application/json", "application/json; charset=utf-8",
                               "text/plain"}}

\* Configurations with at most one rule, with and without a model rewrite.
ForwardConfigs ==
    [rules : {<<>>} \cup {<<r>> : r \in [match : {<<"*">>, <<"a", "*">>},
                                          upstream : VALID_UPSTREAMS,
                                          model : Rewrites]},
     default : VALID_UPSTREAMS]

\* req.headers["content-type"].
contentTypeOf(headers) ==
    IF "content-type" \in DOMAIN headers THEN headers["content-type"] ELSE Absent

\* A decision that sanitizes the JSON requests of every route.
shouldTransformRequest_AnyUpstream(contentType, upstream) ==
    contentType # Absent /\ includesApplicationJson(contentType)

\* transform.ts shouldTransformRequest().
shouldTransformRequest(contentType, upstream) ==
    /\ upstream = "anthropic"
    /\ contentType # Absent
    /\ includesApplicationJson(contentType)

\* parseRequestBody(requestBody)?.model, and undefined for a request
\* without body.
parsedModel(body) ==
    IF body.kind \in {"noMessages", "messages"} THEN body.model ELSE Absent

\* parseRequestBodyAsObject(requestBody) is not null.
isJsonObject(body) == body.kind \in {"noMessages", "messages"}

ForwardFrame ==
    UNCHANGED <<lifeVars, oriVars, globVars, reqVars, respVars, argVars, bufVars,
                hdrPc, target, forwardHeaders, sanPc, sanAgain>>

\* handleRequest, lines 128-153: the request is read, with its body if it
\* has one.
ForwardReceive ==
    /\ routePc = "idle"
    /\ config' \in ForwardConfigs
    /\ \E kind \in BodyKinds, msgs \in ForwardMessages \cup {<<>>}, m \in ClientModels :
          /\ (msgs # <<>>) <=> (kind = "messages")
          /\ kind \in {"noMessages", "messages"} \/ m = Absent
          /\ reqBody' = ForwardBody(kind, msgs, m)
    /\ reqHeaders' \in ForwardHeaders
    /\ routePc' = "read"
    /\ UNCHANGED <<model, selectedRoute, sanOut, bodyWasRewritten, storeVars>>
    /\ ForwardFrame

\* handleRequest, lines 155-162: the route is selected.
ForwardRoute ==
    /\ routePc = "read"
    /\ model' = parsedModel(reqBody)
    /\ selectedRoute' = selectRoute(parsedModel(reqBody), config)
    /\ routePc' = "selected"
    /\ UNCHANGED <<config, reqBody, reqHeaders, sanOut, bodyWasRewritten, storeVars>>
    /\ ForwardFrame

\* handleRequest, lines 164-178: forwardBody, with the model of the route
\* when the route has one and the body is a JSON object.
ForwardRewrite ==
    /\ routePc = "selected"
    /\ LET rewrites == /\ reqBody.kind # "none"
                       /\ ~Falsy(selectedRoute.model)
                       /\ isJsonObject(reqBody)
       IN  /\ sanOut' = [body |-> IF rewrites
                                    THEN [reqBody EXCEPT !.model = selectedRoute.model]
                                    ELSE reqBody,
                         sanitizerRan |-> FALSE]
           /\ bodyWasRewritten' = rewrites
    /\ routePc' = "rewritten"
    /\ UNCHANGED <<config, model, selectedRoute, reqBody, reqHeaders, storeVars>>
    /\ ForwardFrame

\* handleRequest, lines 180-195: the forward body is sanitized when it is
\* not empty and shouldTransformRequest says so.
ForwardSanitize ==
    /\ routePc = "rewritten"
    /\ IF /\ sanOut.body.kind \notin {"none", "empty"}
          /\ shouldTransformRequest(contentTypeOf(reqHeaders), selectedRoute.name)
          THEN LET out == sanitizeContentBlocksWithStore(sanOut.body, cache)
               IN  /\ sanOut' = [body |-> IF out.rewritten
                                            THEN [sanOut.body EXCEPT !.messages = out.messages]
                                            ELSE sanOut.body,
                                 sanitizerRan |-> TRUE]
                   /\ bodyWasRewritten' = (bodyWasRewritten \/ out.rewritten)
                   /\ HasLookups(IF sanOut.body.kind = "messages"
                                    THEN messagesLookups(sanOut.body.messages) ELSE <<>>)
          ELSE UNCHANGED <<sanOut, bodyWasRewritten, storeVars>>
    /\ routePc' = "forwarded"
    /\ UNCHANGED <<config, model, selectedRoute, reqBody, reqHeaders>>
    /\ ForwardFrame

ForwardNext == ForwardReceive \/ ForwardRoute \/ ForwardRewrite \/ ForwardSanitize

\* One request is read, routed, rewritten and sanitized, on a store with
\* some history.
InitForward == RouteIdle /\ SanInit /\ HdrIdle /\ LifeIdle /\ OriIdle /\ GlobIdle /\ ReqIdle /\ RespIdle /\ ArgIdle /\ BufIdle

SpecForward == InitForward /\ [][ForwardNext]_vars

(***************************************************************************)
(* Claims about the request body on its way upstream                       *)
(***************************************************************************)

\* The model field of the body the client sent.
ClientModel == IF isJsonObject(reqBody) THEN reqBody.model ELSE Absent

\* The client's body with the model of the route, when the route has one
\* and the body is a JSON object.
WithRouteModel ==
    IF isJsonObject(reqBody) /\ selectedRoute.model \notin {Absent, ""}
       THEN [reqBody EXCEPT !.model = selectedRoute.model]
       ELSE reqBody

\* C32: the route is the one selectRoute gives for the model of the body
\* the client sent, also after the rewrite; the forward body carries the
\* model of the route before the sanitizer has run; the sanitizer runs only
\* for route anthropic and a JSON content-type, on the rewritten body; and
\* the body forwarded to z.ai is the client's body but for its model field.
C32_RouteRewriteThenSanitize ==
    /\ routePc \in {"selected", "rewritten", "forwarded"} =>
          selectedRoute = selectRoute(ClientModel, config)
    /\ routePc = "rewritten" =>
          (~sanOut.sanitizerRan /\ sanOut.body = WithRouteModel)
    /\ routePc = "forwarded" =>
          /\ sanOut.sanitizerRan =>
                /\ selectedRoute.name = "anthropic"
                /\ contentTypeOf(reqHeaders) \in JsonTypes
                /\ sanOut.body.model = WithRouteModel.model
          /\ selectedRoute.name = "zai" =>
                /\ sanOut.body = WithRouteModel
                /\ \A f \in DOMAIN reqBody \ {"model"} : sanOut.body[f] = reqBody[f]

\* A JSON request whose model matched a rule of z.ai with a rewrite, and
\* whose conversation echoes a thinking block, went out with the model of
\* the rule and the conversation as the client sent it.
C32_Witness ==
    /\ routePc = "forwarded"
    /\ selectedRoute.name = "zai"
    /\ selectedRoute.model = "glm-4.7"
    /\ contentTypeOf(reqHeaders) = "application/json"
    /\ reqBody.kind = "messages"
    /\ reqBody.model = <<"a">>
    /\ Len(ThinkingBlocksOf(reqBody.messages)) = 1
    /\ sanOut.body.model = "glm-4.7"
    /\ sanOut.body.messages = reqBody.messages
    /\ ~sanOut.sanitizerRan

====
